---------------------------- MODULE Spec2Model ----------------------------
(***************************************************************************)
(* A model of the InstaAnalyzer heuristic inference engine                 *)
(* (analyze_insta_data.py) and of the geo-resolution pass                  *)
(* (location_processor.py).                                                *)
(*                                                                         *)
(* Text is modelled as a sequence of one-character strings, so that        *)
(* lower(), substring tests and the regular expressions of the source are  *)
(* computed on the characters, as the source computes them.  An absent or  *)
(* null text is NoneText, an absent or null name is None, an absent number *)
(* is 0 (the source tests these with "if x:"), and an optional object is a *)
(* sequence of length 0 or 1.  Times are whole days since the Unix epoch.  *)
(***************************************************************************)
EXTENDS Integers, Sequences, FiniteSets, TLC

VARIABLES
    posts,          \* the creator's post nodes (postInfo edges), in feed order
    user,           \* the creator's profile (userInfo data.user)
    tables,         \* MALE_NAMES, FEMALE_NAMES, GENDERED_NICHES, category_type_map
    now,            \* the wall clock read by datetime.datetime.now()
    collab,         \* what identify_collaborations returned, None before the call
    runs,           \* the outcomes of the per-creator analyses run so far
    creators,       \* main: the creators of the run, each with its files
    batches,        \* main: creator_batches, a list of lists of creator indexes
    workers,        \* one process_creator_batch activation per batch
    master,         \* main: all_analyses once merged, None before the merge
    totals,         \* main: total_successful, total_skipped, total_errors
    gps_db,         \* the region database read by the geo-resolution pass
    instagram_data, \* the collection the geo-resolution pass loads
    updated_data,   \* the collection it writes, None before the pass
    lookups,        \* the determine_location calls made so far
    text_in,        \* the text a text function is called on
    niche_out,      \* identify_niche: its locals at the return
    age_out,        \* what extract_age returned
    based_out,      \* what determine_location_based returned
    gender_in,      \* the arguments of a call of detect_gender_from_text
    gender_out,     \* what the call returned
    locations_out   \* what analyze_locations returned

vars == <<posts, user, tables, now, collab, runs, creators, batches, workers,
          master, totals, gps_db, instagram_data, updated_data, lookups, text_in,
          niche_out, age_out, based_out, gender_in, gender_out, locations_out>>

\* the state of each component
collabVars == <<collab>>
analysisVars == <<user, tables, runs>>
batchVars == <<creators, batches, workers, master, totals>>
geoVars == <<gps_db, instagram_data, updated_data, lookups>>
textVars == <<text_in, niche_out, age_out, based_out, gender_in, gender_out,
              locations_out>>

\* Python's None where a name (an atom) is expected, and where a text is expected
None == "None"
NoneText == <<"None">>

-----------------------------------------------------------------------------
(* Text                                                                    *)

UpperSeq ==
    <<"A","B","C","D","E","F","G","H","I","J","K","L","M",
      "N","O","P","Q","R","S","T","U","V","W","X","Y","Z">>
LowerSeq ==
    <<"a","b","c","d","e","f","g","h","i","j","k","l","m",
      "n","o","p","q","r","s","t","u","v","w","x","y","z">>
DigitSeq == <<"0","1","2","3","4","5","6","7","8","9">>

Range(f) == {f[i] : i \in DOMAIN f}

Uppers == Range(UpperSeq)
Lowers == Range(LowerSeq)
Digits == Range(DigitSeq)

\* str.lower() on one character, and the case folding of re.IGNORECASE
ToLower(c) ==
    IF c \in Uppers THEN LowerSeq[CHOOSE i \in DOMAIN UpperSeq : UpperSeq[i] = c]
    ELSE c

\* str.lower()
Lower(s) == [i \in 1..Len(s) |-> ToLower(s[i])]

\* Python's truth value of a str (or None)
Truthy(s) == s # NoneText /\ s # <<>>

\* sub in s
Contains(s, sub) ==
    \E i \in 1..(Len(s) - Len(sub) + 1) : SubSeq(s, i, i + Len(sub) - 1) = sub

\* the regular expression class \w
IsWordChar(c) == c \in Uppers \cup Lowers \cup Digits \cup {"_"}

\* the class [A-Za-z0-9._] of the mention pattern
IsMentionChar(c) == IsWordChar(c) \/ c = "."

\* the literal lit matches s at position i (1-based), with or without case folding
MatchAt(s, i, lit, ignorecase) ==
    /\ i >= 1
    /\ i + Len(lit) - 1 <= Len(s)
    /\ \A k \in 1..Len(lit) :
          IF ignorecase THEN ToLower(s[i + k - 1]) = ToLower(lit[k])
          ELSE s[i + k - 1] = lit[k]

\* \b between s[i-1] and s[i]
WordBoundary(s, i) ==
    LET before == i >= 2 /\ i - 1 <= Len(s) /\ IsWordChar(s[i - 1])
        after  == i >= 1 /\ i <= Len(s) /\ IsWordChar(s[i])
    IN  before # after

\* the end of the longest run of characters of a class that starts at i
RECURSIVE RunEnd(_, _, _)
RunEnd(s, i, mention) ==
    IF i <= Len(s) /\ (IF mention THEN IsMentionChar(s[i]) ELSE IsWordChar(s[i]))
    THEN RunEnd(s, i + 1, mention)
    ELSE i - 1

\* re.findall(sigil + "(class+)", s): the captured runs, left to right
RECURSIVE FindAllFrom(_, _, _, _)
FindAllFrom(s, i, sigil, mention) ==
    IF i > Len(s) THEN <<>>
    ELSE IF s[i] = sigil /\ RunEnd(s, i + 1, mention) >= i + 1
         THEN <<SubSeq(s, i + 1, RunEnd(s, i + 1, mention))>>
              \o FindAllFrom(s, RunEnd(s, i + 1, mention) + 1, sigil, mention)
         ELSE FindAllFrom(s, i + 1, sigil, mention)

\* re.findall(r'@([A-Za-z0-9._]+)', caption)
FindMentions(s) == FindAllFrom(s, 1, "@", TRUE)

\* re.findall(r'#(\w+)', caption)
extract_hashtags(s) == IF ~Truthy(s) THEN <<>> ELSE FindAllFrom(s, 1, "#", FALSE)


\* n / d cut to a whole number instead of rounded
RoundHalfEven_Truncated(n, d) == n \div d

\* round(n / d) for n >= 0, d > 0: Python rounds a half to the even neighbour
RoundHalfEven(n, d) ==
    LET q == n \div d
        r == n % d
    IN  IF 2 * r < d THEN q
        ELSE IF 2 * r > d THEN q + 1
        ELSE IF q % 2 = 0 THEN q ELSE q + 1

RECURSIVE SumSeq(_)
SumSeq(s) == IF s = <<>> THEN 0 ELSE Head(s) + SumSeq(Tail(s))

-----------------------------------------------------------------------------
(* identify_collaborations                                                 *)

\* recent_threshold (days)
RecentThreshold == 300

\* the words a mention is skipped for
MentionStopWords ==
    { <<"t", "h", "e">>, <<"a", "n", "d">>, <<"f", "o", "r">>, <<"f", "r", "o", "m">>, <<"w", "i", "t", "h">>, <<"t", "h", "i", "s">>, <<"t", "h", "a", "t">>, <<"h", "a", "v", "e">>,
      <<"h", "a", "s">>, <<"h", "e", "r">>, <<"h", "i", "s">>, <<"o", "u", "r">>, <<"m", "y">>, <<"y", "o", "u", "r">>, <<"t", "h", "e", "i", "r">>, <<"i", "t", "s">>,
      <<"a", "s">>, <<"a", "t">>, <<"b", "y">>, <<"t", "o">>, <<"i", "n">>, <<"o", "n">>, <<"o", "f">>, <<"o", "r">>, <<"i", "f">> }

\* status_hashtags
StatusHashtags ==
    << <<"a", "d", "s">>, <<"a", "d">>, <<"c", "o", "l", "l", "a", "b", "o", "r", "a", "t", "i", "o", "n">>, <<"c", "o", "l", "l", "a", "b">>, <<"u", "s", "e", "m", "y", "c", "o", "d", "e">>,
       <<"p", "a", "r", "t", "n", "e", "r", "s", "h", "i", "p">>, <<"p", "a", "r", "t", "n", "e", "r">> >>

\* the words of ad_indicators[0], and the hashtags of ad_indicators[1..5]
AdWords == { <<"a", "d">>, <<"s", "p", "o", "n", "s", "o", "r", "e", "d">>, <<"p", "a", "i", "d">>, <<"p", "a", "r", "t", "n", "e", "r">>, <<"c", "o", "l", "l", "a", "b">>, <<"a", "m", "b", "a", "s", "s", "a", "d", "o", "r">> }
AdHashtags == { <<"a", "d">>, <<"s", "p", "o", "n", "s", "o", "r", "e", "d">>, <<"p", "a", "i", "d", "p", "a", "r", "t", "n", "e", "r">>, <<"s", "p", "o", "n", "s", "o", "r", "e", "d", "_", "b", "y">>, <<"p", "a", "r", "t", "n", "e", "r", "s", "h", "i", "p">> }

\* node.get('caption', {}).get('text', '')
CaptionOf(post) == post.caption

\* a dictionary kept as its entries in insertion order, each with its key in .name
HasKey(d, k) == \E i \in DOMAIN d : d[i].name = k
KeyIdx(d, k) == CHOOSE i \in DOMAIN d : d[i].name = k
Get(d, k) == d[KeyIdx(d, k)]
Put(d, e) == IF HasKey(d, e.name) THEN [d EXCEPT ![KeyIdx(d, e.name)] = e] ELSE Append(d, e)

\* is_recent of a post: post_date > recent_cutoff, False without taken_at
IsRecentPost(post, clock, days) ==
    IF post.taken_at # 0 THEN post.taken_at > clock - days ELSE FALSE

\* one iteration of "for mention in mentions" on st = (mentions_count, hashtags_count,
\* brand_sources)
CountMention(st, mention, is_recent) ==
    IF Len(mention) < 3 \/ Lower(mention) \in MentionStopWords THEN st
    ELSE
      LET fresh == ~HasKey(st.mentions_count, mention)
          mc0 == IF fresh
                 THEN Append(st.mentions_count,
                             [name |-> mention, count |-> 0, is_recent |-> FALSE])
                 ELSE st.mentions_count
          bs  == IF fresh
                 THEN Put(st.brand_sources,
                          [name |-> mention, mention |-> TRUE, hashtag |-> FALSE])
                 ELSE Put(st.brand_sources,
                          [Get(st.brand_sources, mention) EXCEPT !.mention = TRUE])
          old == Get(mc0, mention)
          new == [old EXCEPT !.count = old.count + 1,
                             !.is_recent = old.is_recent \/ is_recent]
      IN  [st EXCEPT !.mentions_count = Put(mc0, new), !.brand_sources = bs]

\* one iteration of "for hashtag in hashtags"
CountHashtag(st, hashtag, is_recent) ==
    LET fresh == ~HasKey(st.hashtags_count, hashtag)
        hc0 == IF fresh
               THEN Append(st.hashtags_count,
                           [name |-> hashtag, count |-> 0, is_recent |-> FALSE])
               ELSE st.hashtags_count
        bs  == IF ~fresh THEN st.brand_sources
               ELSE IF ~HasKey(st.brand_sources, hashtag)
               THEN Put(st.brand_sources,
                        [name |-> hashtag, mention |-> FALSE, hashtag |-> TRUE])
               ELSE Put(st.brand_sources,
                        [Get(st.brand_sources, hashtag) EXCEPT !.hashtag = TRUE])
        old == Get(hc0, hashtag)
        new == [old EXCEPT !.count = old.count + 1,
                           !.is_recent = old.is_recent \/ is_recent]
    IN  [st EXCEPT !.hashtags_count = Put(hc0, new), !.brand_sources = bs]

RECURSIVE CountMentions(_, _, _)
CountMentions(st, mentions, is_recent) ==
    IF mentions = <<>> THEN st
    ELSE CountMentions(CountMention(st, Head(mentions), is_recent), Tail(mentions), is_recent)

RECURSIVE CountHashtags(_, _, _)
CountHashtags(st, hashtags, is_recent) ==
    IF hashtags = <<>> THEN st
    ELSE CountHashtags(CountHashtag(st, Head(hashtags), is_recent), Tail(hashtags), is_recent)

\* the loop "for post in posts" that fills mentions_count, hashtags_count, brand_sources
RECURSIVE CountPosts(_, _, _)
CountPosts(st, ps, clock) ==
    IF ps = <<>> THEN st
    ELSE
      LET caption == CaptionOf(Head(ps))
          is_recent == IsRecentPost(Head(ps), clock, RecentThreshold)
          st1 == IF Truthy(caption)
                 THEN CountHashtags(CountMentions(st, FindMentions(caption), is_recent),
                                    FindAllFrom(caption, 1, "#", FALSE), is_recent)
                 ELSE st
      IN  CountPosts(st1, Tail(ps), clock)

\* re.search(sigil + re.escape(brand) [+ r'\b'], caption, re.IGNORECASE)
SearchTag(caption, sigil, brand, boundary) ==
    \E i \in 1..Len(caption) :
        /\ caption[i] = sigil
        /\ MatchAt(caption, i + 1, brand, TRUE)
        /\ boundary => WordBoundary(caption, i + 1 + Len(brand))

\* the brands of a post in the engagement loop
PostBrands(caption, all_brands) ==
    { b \in all_brands : SearchTag(caption, "@", b, TRUE) \/ SearchTag(caption, "#", b, TRUE) }

\* branded_engagement
BrandedEngagement(ps, all_brands) ==
    LET Entry(post) ==
            [engagement |-> post.like_count + post.comment_count,
             likes |-> post.like_count, comments |-> post.comment_count,
             brands |-> PostBrands(CaptionOf(post), all_brands)]
        entries == [i \in 1..Len(ps) |-> Entry(ps[i])]
        IsBrandPost(e) == e.brands # {}
    IN  SelectSeq(entries, IsBrandPost)

\* r'\b(?:ad|sponsored|paid|partner|collab|ambassador)\b' or one of the '#tag\b'
\* patterns matches the caption, ignoring case
HasAdIndicator(caption) ==
    \/ \E w \in AdWords : \E i \in 1..Len(caption) :
          /\ WordBoundary(caption, i)
          /\ MatchAt(caption, i, w, TRUE)
          /\ WordBoundary(caption, i + Len(w))
    \/ \E t \in AdHashtags : SearchTag(caption, "#", t, TRUE)

\* types of a brand: the posts scanned are those matching '@brand|#brand' in the
\* mention pass and '#brand' in the hashtag pass, both without a word boundary
BrandTypes(ps, brand, mention_pass) ==
    LET ContainsBrand(caption) ==
            \/ mention_pass /\ SearchTag(caption, "@", brand, FALSE)
            \/ SearchTag(caption, "#", brand, FALSE)
    IN  IF \E i \in 1..Len(ps) :
              ContainsBrand(CaptionOf(ps[i])) /\ HasAdIndicator(CaptionOf(ps[i]))
        THEN <<"ad">> ELSE <<"organic">>

\* source_str
SourceStr(src) ==
    IF src.mention /\ src.hashtag THEN "mention & hashtag"
    ELSE IF src.mention THEN "mention"
    ELSE IF src.hashtag THEN "hashtag" ELSE ""

\* the all_collabs entry of one brand
CollabEntry(ps, data, branded, brand_sources, mention_pass) ==
    LET HasBrand(e) == data.name \in e.brands
        brand_engagements == SelectSeq(branded, HasBrand)
        total == SumSeq([i \in 1..Len(brand_engagements) |-> brand_engagements[i].engagement])
    IN  [name |-> data.name,
         count |-> data.count,
         types |-> BrandTypes(ps, data.name, mention_pass),
         engagement |-> IF brand_engagements = <<>> THEN 0
                        ELSE RoundHalfEven(total, Len(brand_engagements)),
         is_recent |-> data.is_recent,
         source |-> SourceStr(Get(brand_sources, data.name))]

\* the sort key of all_collabs.sort: (-1 if is_recent else 0, -engagement)
CollabBefore(a, b) ==
    LET ka == IF a.is_recent THEN -1 ELSE 0
        kb == IF b.is_recent THEN -1 ELSE 0
    IN  ka < kb \/ (ka = kb /\ -a.engagement < -b.engagement)

\* list.sort is stable: an element goes after every element not greater than it
RECURSIVE InsertCollab(_, _)
InsertCollab(sorted, x) ==
    IF sorted = <<>> THEN <<x>>
    ELSE IF CollabBefore(x, Head(sorted)) THEN <<x>> \o sorted
    ELSE <<Head(sorted)>> \o InsertCollab(Tail(sorted), x)

\* a list left in the order of the two passes
SortCollabs_Unsorted(s) == s

RECURSIVE SortCollabs(_)
SortCollabs(s) ==
    IF s = <<>> THEN <<>>
    ELSE InsertCollab(SortCollabs(SubSeq(s, 1, Len(s) - 1)), s[Len(s)])


\* uname: the username of the first post's user data
Uname(ps) == IF ps # <<>> THEN ps[1].user ELSE None

\* Rule 1: any post has is_paid_partnership is True
Rule1(ps) == \E i \in 1..Len(ps) : ps[i].is_paid_partnership = TRUE

\* a rule 2 that compares the caption as written, without caption.lower()
Rule2_CaseSensitive(ps) ==
    \E i \in 1..Len(ps) :
        /\ Truthy(CaptionOf(ps[i]))
        /\ \E t \in 1..Len(StatusHashtags) :
              Contains(CaptionOf(ps[i]), <<"#">> \o StatusHashtags[t])

\* Rule 2: f'#{tag}' in caption_lower for a tag of status_hashtags
Rule2(ps) ==
    \E i \in 1..Len(ps) :
        /\ Truthy(CaptionOf(ps[i]))
        /\ \E t \in 1..Len(StatusHashtags) :
              Contains(Lower(CaptionOf(ps[i])), <<"#">> \o StatusHashtags[t])

\* Rule 3: a post's owner username is set and is not uname
Rule3(ps) ==
    \E i \in 1..Len(ps) : ps[i].owner # None /\ ps[i].owner # Uname(ps)

\* Rule 4: a coauthor's username is set and is not uname
Rule4(ps) ==
    \E i \in 1..Len(ps) : \E c \in 1..Len(ps[i].coauthor_producers) :
        ps[i].coauthor_producers[c] # None /\ ps[i].coauthor_producers[c] # Uname(ps)

\* final_status: each rule is tried only while the status is still None
FinalStatus(ps) ==
    IF Rule1(ps) THEN "Active"
    ELSE IF Rule2(ps) THEN "Active"
    ELSE IF Rule3(ps) THEN "Active"
    ELSE IF Rule4(ps) THEN "Active"
    ELSE None

identify_collaborations(ps, clock) ==
    LET st == CountPosts([mentions_count |-> <<>>, hashtags_count |-> <<>>,
                          brand_sources |-> <<>>], ps, clock)
        mentions_count == st.mentions_count
        hashtags_count == st.hashtags_count
        all_brands == {mentions_count[i].name : i \in DOMAIN mentions_count}
                      \cup {hashtags_count[i].name : i \in DOMAIN hashtags_count}
        branded == BrandedEngagement(ps, all_brands)
        KeptMention(d) == d.count >= 2
        KeptHashtag(d) == ~HasKey(mentions_count, d.name) /\ d.count >= 2
        from_mentions == SelectSeq(mentions_count, KeptMention)
        from_hashtags == SelectSeq(hashtags_count, KeptHashtag)
        all_collabs ==
            [i \in 1..Len(from_mentions) |->
                CollabEntry(ps, from_mentions[i], branded, st.brand_sources, TRUE)]
            \o [i \in 1..Len(from_hashtags) |->
                CollabEntry(ps, from_hashtags[i], branded, st.brand_sources, FALSE)]
        previous_brands ==
            [i \in 1..Len(from_mentions) |->
                [name |-> from_mentions[i].name, source |-> "mention"]]
            \o [i \in 1..Len(from_hashtags) |->
                [name |-> from_hashtags[i].name, source |-> "hashtag"]]
        IsRecentBrand(b) ==
            \/ HasKey(from_mentions, b.name) /\ Get(from_mentions, b.name).is_recent
            \/ HasKey(from_hashtags, b.name) /\ Get(from_hashtags, b.name).is_recent
        recent_brands == SelectSeq(previous_brands, IsRecentBrand)
        total == SumSeq([i \in 1..Len(branded) |-> branded[i].engagement])
    IN  [status |-> FinalStatus(ps),
         recent_brands_with_source |-> recent_brands,
         previous_brands_with_source |-> previous_brands,
         metrics |->
            [total_collaborations |-> Len(previous_brands),
             recent_count |-> Len(recent_brands),
             \* round(avg_branded_engagement, 1), in tenths
             engagement_rate_x10 |-> IF branded = <<>> THEN 0
                                     ELSE RoundHalfEven(10 * total, Len(branded))],
         top_collaborations |-> SortCollabs(all_collabs)]


-----------------------------------------------------------------------------
(* identify_niche                                                          *)

\* niche_categories, in the order the dictionary declares them
NicheCategories ==
    <<
       [name |-> <<"F", "a", "s", "h", "i", "o", "n", " ", "&", " ", "S", "t", "y", "l", "e">>,
        keywords |-> << <<"f", "a", "s", "h", "i", "o", "n">>, <<"s", "t", "y", "l", "e">>, <<"o", "u", "t", "f", "i", "t">>, <<"c", "l", "o", "t", "h", "i", "n", "g">>, <<"m", "o", "d", "e", "l">>, <<"d", "r", "e", "s", "s">>, <<"a", "c", "c", "e", "s", "s", "o", "r", "i", "e", "s">>, <<"f", "a", "s", "h", "i", "o", "n", "i", "s", "t", "a">> >>],
       [name |-> <<"B", "e", "a", "u", "t", "y">>,
        keywords |-> << <<"m", "a", "k", "e", "u", "p">>, <<"s", "k", "i", "n", "c", "a", "r", "e">>, <<"b", "e", "a", "u", "t", "y">>, <<"c", "o", "s", "m", "e", "t", "i", "c", "s">>, <<"h", "a", "i", "r", "c", "a", "r", "e">>, <<"n", "a", "i", "l", "s">>, <<"g", "l", "a", "m">>, <<"m", "a", "k", "e", "u", "p", "a", "r", "t", "i", "s", "t">> >>],
       [name |-> <<"L", "i", "f", "e", "s", "t", "y", "l", "e">>,
        keywords |-> << <<"l", "i", "f", "e", "s", "t", "y", "l", "e">>, <<"l", "i", "f", "e">>, <<"d", "a", "i", "l", "y">>, <<"r", "o", "u", "t", "i", "n", "e">>, <<"i", "n", "s", "p", "i", "r", "a", "t", "i", "o", "n">>, <<"m", "o", "t", "i", "v", "a", "t", "i", "o", "n">> >>],
       [name |-> <<"F", "i", "t", "n", "e", "s", "s">>,
        keywords |-> << <<"f", "i", "t", "n", "e", "s", "s">>, <<"w", "o", "r", "k", "o", "u", "t">>, <<"g", "y", "m">>, <<"e", "x", "e", "r", "c", "i", "s", "e">>, <<"h", "e", "a", "l", "t", "h">>, <<"t", "r", "a", "i", "n", "i", "n", "g">>, <<"m", "u", "s", "c", "l", "e">>, <<"f", "i", "t">> >>],
       [name |-> <<"H", "e", "a", "l", "t", "h">>,
        keywords |-> << <<"h", "e", "a", "l", "t", "h">>, <<"w", "e", "l", "l", "n", "e", "s", "s">>, <<"n", "u", "t", "r", "i", "t", "i", "o", "n">>, <<"d", "i", "e", "t">>, <<"h", "e", "a", "l", "t", "h", "y">>, <<"m", "i", "n", "d", "f", "u", "l", "n", "e", "s", "s">>, <<"m", "e", "d", "i", "t", "a", "t", "i", "o", "n">> >>],
       [name |-> <<"F", "o", "o", "d">>,
        keywords |-> << <<"f", "o", "o", "d">>, <<"c", "o", "o", "k", "i", "n", "g">>, <<"r", "e", "c", "i", "p", "e">>, <<"c", "h", "e", "f">>, <<"f", "o", "o", "d", "i", "e">>, <<"c", "u", "i", "s", "i", "n", "e">>, <<"b", "a", "k", "i", "n", "g">>, <<"d", "e", "l", "i", "c", "i", "o", "u", "s">>, <<"y", "u", "m", "m", "y">> >>],
       [name |-> <<"T", "r", "a", "v", "e", "l">>,
        keywords |-> << <<"t", "r", "a", "v", "e", "l">>, <<"w", "a", "n", "d", "e", "r", "l", "u", "s", "t">>, <<"a", "d", "v", "e", "n", "t", "u", "r", "e">>, <<"e", "x", "p", "l", "o", "r", "e">>, <<"t", "o", "u", "r", "i", "s", "m">>, <<"v", "a", "c", "a", "t", "i", "o", "n">>, <<"t", "r", "i", "p">>, <<"j", "o", "u", "r", "n", "e", "y">>, <<"d", "e", "s", "t", "i", "n", "a", "t", "i", "o", "n">> >>],
       [name |-> <<"T", "e", "c", "h", "n", "o", "l", "o", "g", "y">>,
        keywords |-> << <<"t", "e", "c", "h", "n", "o", "l", "o", "g", "y">>, <<"t", "e", "c", "h">>, <<"g", "a", "d", "g", "e", "t">>, <<"d", "e", "v", "i", "c", "e">>, <<"s", "o", "f", "t", "w", "a", "r", "e">>, <<"a", "p", "p">>, <<"s", "m", "a", "r", "t", "p", "h", "o", "n", "e">>, <<"c", "o", "m", "p", "u", "t", "e", "r">> >>],
       [name |-> <<"G", "a", "m", "i", "n", "g">>,
        keywords |-> << <<"g", "a", "m", "i", "n", "g">>, <<"g", "a", "m", "e", "r">>, <<"v", "i", "d", "e", "o", "g", "a", "m", "e", "s">>, <<"g", "a", "m", "e">>, <<"e", "s", "p", "o", "r", "t", "s">>, <<"p", "l", "a", "y", "s", "t", "a", "t", "i", "o", "n">>, <<"x", "b", "o", "x">>, <<"n", "i", "n", "t", "e", "n", "d", "o">> >>],
       [name |-> <<"E", "n", "t", "e", "r", "t", "a", "i", "n", "m", "e", "n", "t">>,
        keywords |-> << <<"e", "n", "t", "e", "r", "t", "a", "i", "n", "m", "e", "n", "t">>, <<"m", "o", "v", "i", "e">>, <<"f", "i", "l", "m">>, <<"t", "v">>, <<"t", "e", "l", "e", "v", "i", "s", "i", "o", "n">>, <<"c", "i", "n", "e", "m", "a">>, <<"s", "t", "r", "e", "a", "m", "i", "n", "g">> >>],
       [name |-> <<"C", "o", "m", "e", "d", "y">>,
        keywords |-> << <<"c", "o", "m", "e", "d", "y">>, <<"f", "u", "n", "n", "y">>, <<"h", "u", "m", "o", "r">>, <<"l", "a", "u", "g", "h">>, <<"j", "o", "k", "e">>, <<"p", "r", "a", "n", "k">>, <<"s", "k", "i", "t">> >>],
       [name |-> <<"E", "d", "u", "c", "a", "t", "i", "o", "n">>,
        keywords |-> << <<"e", "d", "u", "c", "a", "t", "i", "o", "n">>, <<"l", "e", "a", "r", "n", "i", "n", "g">>, <<"s", "c", "h", "o", "o", "l">>, <<"k", "n", "o", "w", "l", "e", "d", "g", "e">>, <<"t", "e", "a", "c", "h">>, <<"s", "t", "u", "d", "y">>, <<"s", "t", "u", "d", "e", "n", "t">>, <<"l", "e", "s", "s", "o", "n">> >>],
       [name |-> <<"B", "u", "s", "i", "n", "e", "s", "s">>,
        keywords |-> << <<"b", "u", "s", "i", "n", "e", "s", "s">>, <<"e", "n", "t", "r", "e", "p", "r", "e", "n", "e", "u", "r">>, <<"m", "a", "r", "k", "e", "t", "i", "n", "g">>, <<"s", "t", "a", "r", "t", "u", "p">>, <<"s", "u", "c", "c", "e", "s", "s">>, <<"m", "o", "n", "e", "y">> >>],
       [name |-> <<"F", "i", "n", "a", "n", "c", "e">>,
        keywords |-> << <<"f", "i", "n", "a", "n", "c", "e">>, <<"i", "n", "v", "e", "s", "t", "i", "n", "g">>, <<"s", "t", "o", "c", "k", "s">>, <<"c", "r", "y", "p", "t", "o", "c", "u", "r", "r", "e", "n", "c", "y">>, <<"m", "o", "n", "e", "y">>, <<"f", "i", "n", "a", "n", "c", "i", "a", "l">>, <<"w", "e", "a", "l", "t", "h">> >>],
       [name |-> <<"A", "r", "t", " ", "&", " ", "D", "e", "s", "i", "g", "n">>,
        keywords |-> << <<"a", "r", "t">>, <<"a", "r", "t", "i", "s", "t">>, <<"d", "r", "a", "w", "i", "n", "g">>, <<"p", "a", "i", "n", "t", "i", "n", "g">>, <<"c", "r", "e", "a", "t", "i", "v", "e">>, <<"d", "e", "s", "i", "g", "n">>, <<"i", "l", "l", "u", "s", "t", "r", "a", "t", "i", "o", "n">> >>],
       [name |-> <<"M", "u", "s", "i", "c">>,
        keywords |-> << <<"m", "u", "s", "i", "c">>, <<"m", "u", "s", "i", "c", "i", "a", "n">>, <<"s", "o", "n", "g">>, <<"s", "i", "n", "g", "e", "r">>, <<"a", "r", "t", "i", "s", "t">>, <<"b", "a", "n", "d">>, <<"c", "o", "n", "c", "e", "r", "t">> >>],
       [name |-> <<"D", "a", "n", "c", "e">>,
        keywords |-> << <<"d", "a", "n", "c", "e">>, <<"d", "a", "n", "c", "e", "r">>, <<"c", "h", "o", "r", "e", "o", "g", "r", "a", "p", "h", "y">>, <<"b", "a", "l", "l", "e", "t">>, <<"h", "i", "p", "h", "o", "p">> >>],
       [name |-> <<"S", "p", "o", "r", "t", "s">>,
        keywords |-> << <<"s", "p", "o", "r", "t", "s">>, <<"a", "t", "h", "l", "e", "t", "e">>, <<"b", "a", "s", "k", "e", "t", "b", "a", "l", "l">>, <<"f", "o", "o", "t", "b", "a", "l", "l">>, <<"s", "o", "c", "c", "e", "r">>, <<"b", "a", "s", "e", "b", "a", "l", "l">>, <<"t", "e", "n", "n", "i", "s">> >>],
       [name |-> <<"P", "e", "t", "s", " ", "&", " ", "A", "n", "i", "m", "a", "l", "s">>,
        keywords |-> << <<"p", "e", "t", "s">>, <<"d", "o", "g">>, <<"c", "a", "t">>, <<"a", "n", "i", "m", "a", "l">>, <<"p", "u", "p", "p", "y">>, <<"k", "i", "t", "t", "e", "n">>, <<"w", "i", "l", "d", "l", "i", "f", "e">> >>],
       [name |-> <<"F", "a", "m", "i", "l", "y", " ", "&", " ", "P", "a", "r", "e", "n", "t", "i", "n", "g">>,
        keywords |-> << <<"f", "a", "m", "i", "l", "y">>, <<"p", "a", "r", "e", "n", "t", "i", "n", "g">>, <<"m", "o", "m">>, <<"d", "a", "d">>, <<"c", "h", "i", "l", "d", "r", "e", "n">>, <<"k", "i", "d", "s">>, <<"b", "a", "b", "y">> >>]
    >>

\* hashtag_counts: the lowercased hashtags of all captions, each with its count, in
\* order of first appearance
RECURSIVE CountTags(_, _)
CountTags(counts, tags) ==
    IF tags = <<>> THEN counts
    ELSE LET tag == Lower(Head(tags))
             n == IF HasKey(counts, tag) THEN Get(counts, tag).count ELSE 0
         IN  CountTags(Put(counts, [name |-> tag, count |-> n + 1]), Tail(tags))

RECURSIVE AllHashtags(_)
AllHashtags(ps) ==
    IF ps = <<>> THEN <<>>
    ELSE extract_hashtags(CaptionOf(Head(ps))) \o AllHashtags(Tail(ps))

\* any(keyword in tag for keyword in keywords)
TagMatches(tag, keywords) == \E k \in 1..Len(keywords) : Contains(tag, keywords[k])

\* niche_scores if a hashtag added its count once for every keyword it contains
NicheScores_PerKeyword(hashtag_counts) ==
    [c \in 1..Len(NicheCategories) |->
        SumSeq([t \in 1..Len(hashtag_counts) |->
                  hashtag_counts[t].count
                  * Cardinality({k \in 1..Len(NicheCategories[c].keywords) :
                        Contains(hashtag_counts[t].name, NicheCategories[c].keywords[k])})])]

\* niche_scores, as the sequence of the scores in the declared order
NicheScores(hashtag_counts) ==
    [c \in 1..Len(NicheCategories) |->
        SumSeq([t \in 1..Len(hashtag_counts) |->
                  IF TagMatches(hashtag_counts[t].name, NicheCategories[c].keywords)
                  THEN hashtag_counts[t].count ELSE 0])]

\* sorted(niche_scores.items(), key=score, reverse=True): the category indexes by
\* descending score; the sort is stable, so equal scores keep the declared order
RECURSIVE InsertByScore_LastWins(_, _, _)
InsertByScore_LastWins(sorted, c, scores) ==
    IF sorted = <<>> THEN <<c>>
    ELSE IF scores[c] >= scores[Head(sorted)] THEN <<c>> \o sorted
    ELSE <<Head(sorted)>> \o InsertByScore_LastWins(Tail(sorted), c, scores)

RECURSIVE InsertByScore(_, _, _)
InsertByScore(sorted, c, scores) ==
    IF sorted = <<>> THEN <<c>>
    ELSE IF scores[c] > scores[Head(sorted)] THEN <<c>> \o sorted
    ELSE <<Head(sorted)>> \o InsertByScore(Tail(sorted), c, scores)

RECURSIVE SortedNiches(_, _)
SortedNiches(n, scores) ==
    IF n = 0 THEN <<>>
    ELSE InsertByScore(SortedNiches(n - 1, scores), n, scores)

\* the result of identify_niche from niche_scores; percentages are in tenths of a
\* percent.  The source rounds the float score / total * 100 to one decimal; the
\* model rounds the exact quotient.
NicheResult(scores) ==
    LET total_score == IF SumSeq(scores) = 0 THEN 1 ELSE SumSeq(scores)
        sorted_niches == SortedNiches(Len(NicheCategories), scores)
        top == sorted_niches[1]
        max_score == IF scores[top] > 0 THEN scores[top] ELSE 1
        Pct(c) == RoundHalfEven(scores[c] * 1000, total_score)
        Significant(c) == scores[c] > 0 /\ Pct(c) >= 20
        Scored(c) == scores[c] > 0
        next_three == SelectSeq(SubSeq(sorted_niches, 2, 4), Scored)
        significant == SelectSeq([k \in 1..Len(NicheCategories) |-> k], Significant)
    IN  [primary |-> IF scores[top] > 0 THEN NicheCategories[top].name ELSE NoneText,
         secondary |-> [i \in 1..Len(next_three) |-> NicheCategories[next_three[i]].name],
         distribution_x10 |->
            [i \in 1..Len(significant) |->
                [name |-> NicheCategories[significant[i]].name,
                 pct |-> Pct(significant[i])]],
         confidence_scores |->
            [c \in 1..Len(NicheCategories) |->
                LET v == (scores[c] * 100) \div max_score
                IN  IF v > 100 THEN 100 ELSE v]]

\* the locals of identify_niche at its return: hashtag_counts, niche_scores (each
\* computed once) and the dictionary returned
NicheLocals(ps) ==
    CHOOSE r \in UNION {{[hashtag_counts |-> counts, niche_scores |-> scores,
                          result |-> NicheResult(scores)] :
                            scores \in {NicheScores(counts)}} :
                         counts \in {CountTags(<<>>, AllHashtags(ps))}} : TRUE

\* identify_niche(posts)
identify_niche(ps) == NicheLocals(ps).result

-----------------------------------------------------------------------------
(* extract_age                                                             *)

\* the regular expression class \s
IsSpace(c) == c \in {" ", "\n", "\t"}

\* the position after \s* matched from i
RECURSIVE SkipSpaces(_, _)
SkipSpaces(s, i) == IF i >= 1 /\ i <= Len(s) /\ IsSpace(s[i]) THEN SkipSpaces(s, i + 1) ELSE i

IsDigitAt(s, i) == i >= 1 /\ i <= Len(s) /\ s[i] \in Digits

DigitValue(c) == (CHOOSE i \in DOMAIN DigitSeq : DigitSeq[i] = c) - 1

\* int() of the digits s[i..j]
RECURSIVE IntOf(_, _, _)
IntOf(s, i, j) == IF j < i THEN 0 ELSE 10 * IntOf(s, i, j - 1) + DigitValue(s[j])

\* (\d{1,2}) at i takes two digits when there are two; what follows every use of
\* it in age_patterns cannot start with a digit, so one digit of two never matches
TwoDigitsEnd(s, i) == IF IsDigitAt(s, i + 1) THEN i + 1 ELSE i

\* one of the literals matches at i, ignoring case: the position after it, else 0
AfterAny(s, i, lits) ==
    IF \E l \in lits : MatchAt(s, i, l, TRUE)
    THEN i + Len(CHOOSE l \in lits : MatchAt(s, i, l, TRUE))
    ELSE 0

\* r"(?:I am|I'm)\s+(\d{1,2})" matched at i: the captured number, else -1
AgePattern1At(s, i) ==
    LET e == AfterAny(s, i, { <<"I", " ", "a", "m">>, <<"I", "'", "m">> })
        d == SkipSpaces(s, e)
    IN  IF e # 0 /\ d > e /\ IsDigitAt(s, d) THEN IntOf(s, d, TwoDigitsEnd(s, d)) ELSE -1

\* r'age\s*:?\s*(\d{1,2})'
AgePattern2At(s, i) ==
    LET e == AfterAny(s, i, { <<"a", "g", "e">> })
        c == SkipSpaces(s, e)
        d == SkipSpaces(s, IF c <= Len(s) /\ s[c] = ":" THEN c + 1 ELSE c)
    IN  IF e # 0 /\ IsDigitAt(s, d) THEN IntOf(s, d, TwoDigitsEnd(s, d)) ELSE -1

\* r'(\d{1,2})\s*(?:years|yrs)\s*old'
AgePattern3At(s, i) ==
    LET y == SkipSpaces(s, TwoDigitsEnd(s, i) + 1)
        e == AfterAny(s, y, { <<"y", "e", "a", "r", "s">>, <<"y", "r", "s">> })
    IN  IF IsDigitAt(s, i) /\ e # 0 /\ MatchAt(s, SkipSpaces(s, e), <<"o", "l", "d">>, TRUE)
        THEN IntOf(s, i, TwoDigitsEnd(s, i)) ELSE -1

\* r'(\d{1,2})\s*y\.?o'
AgePattern4At(s, i) ==
    LET y == SkipSpaces(s, TwoDigitsEnd(s, i) + 1)
    IN  IF IsDigitAt(s, i) /\ (MatchAt(s, y, <<"y", "o">>, TRUE) \/ MatchAt(s, y, <<"y", ".", "o">>, TRUE))
        THEN IntOf(s, i, TwoDigitsEnd(s, i)) ELSE -1

AgePatternAt(p, s, i) ==
    CASE p = 1 -> AgePattern1At(s, i)
      [] p = 2 -> AgePattern2At(s, i)
      [] p = 3 -> AgePattern3At(s, i)
      [] OTHER -> AgePattern4At(s, i)

\* (\d{4}) at i: the year, else -1
FourDigitsAt(s, i) ==
    IF \A k \in 0..3 : IsDigitAt(s, i + k) THEN IntOf(s, i, i + 3) ELSE -1

\* r'born\s+in\s+(\d{4})', r'b\.\s*(\d{4})', r'est\.\s*(\d{4})'
YearPatternAt(p, s, i) ==
    CASE p = 1 ->
           LET b == AfterAny(s, i, { <<"b", "o", "r", "n">> })
               n == SkipSpaces(s, b)
               e == AfterAny(s, n, { <<"i", "n">> })
               d == SkipSpaces(s, e)
           IN  IF b # 0 /\ n > b /\ e # 0 /\ d > e THEN FourDigitsAt(s, d) ELSE -1
      [] p = 2 ->
           LET e == AfterAny(s, i, { <<"b", ".">> })
           IN  IF e # 0 THEN FourDigitsAt(s, SkipSpaces(s, e)) ELSE -1
      [] OTHER ->
           LET e == AfterAny(s, i, { <<"e", "s", "t", ".">> })
           IN  IF e # 0 THEN FourDigitsAt(s, SkipSpaces(s, e)) ELSE -1

\* matches[0] of re.findall: the capture of the leftmost match, -1 without a match
FirstAgeMatch(p, s) ==
    IF \E i \in 1..Len(s) : AgePatternAt(p, s, i) >= 0
    THEN AgePatternAt(p, s, CHOOSE i \in 1..Len(s) :
             AgePatternAt(p, s, i) >= 0 /\ \A j \in 1..(i - 1) : AgePatternAt(p, s, j) < 0)
    ELSE -1

FirstYearMatch(p, s) ==
    IF \E i \in 1..Len(s) : YearPatternAt(p, s, i) >= 0
    THEN YearPatternAt(p, s, CHOOSE i \in 1..Len(s) :
             YearPatternAt(p, s, i) >= 0 /\ \A j \in 1..(i - 1) : YearPatternAt(p, s, j) < 0)
    ELSE -1

\* a chain without the branch for ages under 35
AgeGroupOf_WithoutThirties(age) ==
    IF age < 18 THEN "Under 18"
    ELSE IF age < 25 THEN "18-24"
    ELSE IF age < 30 THEN "25-29"
    ELSE IF age < 45 THEN "35-44"
    ELSE "45+"

\* a chain without the branch for ages under 30
AgeGroupOf_WithoutTwenties(age) ==
    IF age < 18 THEN "Under 18"
    ELSE IF age < 25 THEN "18-24"
    ELSE IF age < 35 THEN "25-34"
    ELSE IF age < 45 THEN "35-44"
    ELSE "45+"

\* the if/elif chain that maps an age to its group
AgeGroupOf(age) ==
    IF age < 18 THEN "Under 18"
    ELSE IF age < 25 THEN "18-24"
    ELSE IF age < 30 THEN "25-29"
    ELSE IF age < 35 THEN "25-34"
    ELSE IF age < 45 THEN "35-44"
    ELSE "45+"

\* datetime.datetime.now().year for a clock in days since 1970-01-01 (the civil
\* calendar; the time zone is taken to be UTC)
YearOfDay(days) ==
    LET z == days + 719468
        era == z \div 146097
        doe == z - era * 146097
        yoe == (doe - doe \div 1460 + doe \div 36524 - doe \div 146096) \div 365
        doy == doe - (365 * yoe + yoe \div 4 - yoe \div 100)
        mp == (5 * doy + 2) \div 153
        m == IF mp < 10 THEN mp + 3 ELSE mp - 9
    IN  yoe + era * 400 + (IF m <= 2 THEN 1 ELSE 0)

\* text.split('\n')
RECURSIVE SplitLines(_)
SplitLines(s) ==
    IF \E i \in 1..Len(s) : s[i] = "\n"
    THEN LET i == CHOOSE k \in 1..Len(s) : s[k] = "\n" /\ \A j \in 1..(k - 1) : s[j] # "\n"
         IN  <<SubSeq(s, 1, i - 1)>> \o SplitLines(SubSeq(s, i + 1, Len(s)))
    ELSE <<s>>

\* a loop over the lines without the default after it
RECURSIVE AgeGroupFromKeywords_NoDefault(_)
AgeGroupFromKeywords_NoDefault(lines) ==
    IF lines = <<>> THEN None
    ELSE IF Contains(Lower(Head(lines)), <<"c", "o", "l", "l", "e", "g", "e">>)
            \/ Contains(Lower(Head(lines)), <<"u", "n", "i", "v", "e", "r", "s", "i", "t", "y">>) THEN "18-24"
    ELSE IF Contains(Lower(Head(lines)), <<"c", "a", "r", "e", "e", "r">>)
            \/ Contains(Lower(Head(lines)), <<"j", "o", "b">>) THEN "25-29"
    ELSE AgeGroupFromKeywords_NoDefault(Tail(lines))

\* the life-stage loop over the lines of the text, then the default
RECURSIVE AgeGroupFromKeywords(_)
AgeGroupFromKeywords(lines) ==
    IF lines = <<>> THEN "25-29"
    ELSE IF Contains(Lower(Head(lines)), <<"c", "o", "l", "l", "e", "g", "e">>)
            \/ Contains(Lower(Head(lines)), <<"u", "n", "i", "v", "e", "r", "s", "i", "t", "y">>) THEN "18-24"
    ELSE IF Contains(Lower(Head(lines)), <<"c", "a", "r", "e", "e", "r">>)
            \/ Contains(Lower(Head(lines)), <<"j", "o", "b">>) THEN "25-29"
    ELSE AgeGroupFromKeywords(Tail(lines))

\* the first of the patterns p..4 whose first match is a plausible age, else -1
RECURSIVE DirectAge(_, _)
DirectAge(p, s) ==
    LET m == FirstAgeMatch(p, s)
    IN  IF p > 4 THEN -1
        ELSE IF m >= 13 /\ m <= 100 THEN m
        ELSE DirectAge(p + 1, s)

\* the first of the year patterns p..3 whose first match is a plausible birth year
RECURSIVE BirthYear(_, _, _)
BirthYear(p, s, current_year) ==
    LET m == FirstYearMatch(p, s)
    IN  IF p > 3 THEN -1
        ELSE IF m >= 1920 /\ m <= current_year - 13 THEN m
        ELSE BirthYear(p + 1, s, current_year)

\* the steps of extract_age once the patterns have been searched: direct_age and
\* birth_year are the plausible matches, -1 without one
AgeFrom(s, current_year, direct_age, birth_year) ==
    IF ~Truthy(s) THEN [age |-> <<>>, age_group |-> None]
    ELSE IF direct_age >= 0
         THEN [age |-> <<direct_age>>, age_group |-> AgeGroupOf(direct_age)]
    ELSE IF birth_year >= 0
         THEN [age |-> <<current_year - birth_year>>,
               age_group |-> AgeGroupOf(current_year - birth_year)]
    ELSE [age |-> <<>>, age_group |-> AgeGroupFromKeywords(SplitLines(s))]

\* extract_age(text) at a clock: age is <<>> for None.  Each search is made once.
extract_age(s, clock) ==
    CHOOSE r \in
        UNION {{AgeFrom(t, y, d, b) : d \in {DirectAge(1, t)}, b \in {BirthYear(1, t, y)}} :
                  t \in {s}, y \in {YearOfDay(clock)}} : TRUE

-----------------------------------------------------------------------------
(* detect_gender_from_text                                                 *)

\* the words of female_indicators[0] and male_indicators[0]; the second pattern of
\* each list is the one symbol, written here as one character of the text
FemaleWords ==
    { <<"s", "h", "e">>, <<"h", "e", "r">>, <<"w", "o", "m", "a", "n">>, <<"g", "i", "r", "l">>, <<"f", "e", "m", "a", "l", "e">>, <<"m", "o", "m">>, <<"m", "o", "t", "h", "e", "r">>, <<"w", "i", "f", "e">>,
      <<"d", "a", "u", "g", "h", "t", "e", "r">>, <<"s", "i", "s", "t", "e", "r">> }
MaleWords ==
    { <<"h", "e">>, <<"h", "i", "m">>, <<"m", "a", "n">>, <<"b", "o", "y">>, <<"m", "a", "l", "e">>, <<"d", "a", "d">>, <<"f", "a", "t", "h", "e", "r">>, <<"h", "u", "s", "b", "a", "n", "d">>,
      <<"s", "o", "n">>, <<"b", "r", "o", "t", "h", "e", "r">> }
FemaleSign == "FEMALE SIGN"
MaleSign == "MALE SIGN"

\* len(re.findall(r'\b(?:w1|w2|...)\b', s, re.IGNORECASE)) + len(re.findall(sign, s))
CountIndicators(s, words, sign) ==
    Cardinality({i \in 1..Len(s) :
        \/ /\ WordBoundary(s, i)
           /\ \E w \in words : MatchAt(s, i, w, TRUE) /\ WordBoundary(s, i + Len(w))
        \/ s[i] = sign})

\* the matches of the bio and of every caption, skipping the empty ones
RECURSIVE CountAll(_, _, _)
CountAll(texts, words, sign) ==
    IF texts = <<>> THEN 0
    ELSE (IF Truthy(Head(texts)) THEN CountIndicators(Head(texts), words, sign) ELSE 0)
         + CountAll(Tail(texts), words, sign)

\* any(keyword in niche_lower for keyword in GENDERED_NICHES[kind])
NicheIn(niche, keywords) ==
    Truthy(niche) /\ \E k \in keywords : Contains(Lower(niche), k)

Abs(x) == IF x < 0 THEN -x ELSE x

\* a decision that gives the niche the full weight 0.15 instead of 0.15 * 0.8
GenderFrom_FullNicheWeight(female_matches, male_matches, first_name, niche, tbl) ==
    LET name_score ==
            IF ~Truthy(first_name) THEN 0
            ELSE IF Lower(first_name) \in tbl.male_names THEN -1
            ELSE IF Lower(first_name) \in tbl.female_names THEN 1
            ELSE 0
        total_matches == female_matches + male_matches
        t == IF total_matches > 0 THEN total_matches ELSE 1
        niche_sign ==
            IF NicheIn(niche, tbl.female_dominated) THEN 1
            ELSE IF NicheIn(niche, tbl.male_dominated) THEN -1
            ELSE 0
        \* 100 * t * final_score
        num == 50 * name_score * t + 35 * (female_matches - male_matches)
               + 15 * niche_sign * t
        den == 100 * t
    IN  IF 10 * num > den THEN [gender |-> "Female", num |-> Abs(num), den |-> den]
        ELSE IF 10 * num < -den THEN [gender |-> "Male", num |-> Abs(num), den |-> den]
        ELSE IF NicheIn(niche, tbl.female_dominated)
             THEN [gender |-> "Female", num |-> 60, den |-> 100]
        ELSE IF NicheIn(niche, tbl.male_dominated)
             THEN [gender |-> "Male", num |-> 60, den |-> 100]
        ELSE IF Truthy(first_name) /\ Lower(first_name) \in tbl.male_names
             THEN [gender |-> "Male", num |-> 70, den |-> 100]
        ELSE IF Truthy(first_name) /\ Lower(first_name) \in tbl.female_names
             THEN [gender |-> "Female", num |-> 70, den |-> 100]
        ELSE [gender |-> "Female", num |-> 50, den |-> 100]

\* the decision of detect_gender_from_text from the counts; the score and the
\* confidence are the exact fractions num / den (the source computes them in
\* floating point):
\*   final_score = 0.5 * name + 0.35 * (f - m) / (f + m) + 0.15 * niche(+-0.8)
GenderFrom(female_matches, male_matches, first_name, niche, tbl) ==
    LET name_score ==
            IF ~Truthy(first_name) THEN 0
            ELSE IF Lower(first_name) \in tbl.male_names THEN -1
            ELSE IF Lower(first_name) \in tbl.female_names THEN 1
            ELSE 0
        total_matches == female_matches + male_matches
        t == IF total_matches > 0 THEN total_matches ELSE 1
        niche_sign ==
            IF NicheIn(niche, tbl.female_dominated) THEN 1
            ELSE IF NicheIn(niche, tbl.male_dominated) THEN -1
            ELSE 0
        \* 100 * t * final_score
        num == 50 * name_score * t + 35 * (female_matches - male_matches)
               + 12 * niche_sign * t
        den == 100 * t
    IN  IF 10 * num > den THEN [gender |-> "Female", num |-> Abs(num), den |-> den]
        ELSE IF 10 * num < -den THEN [gender |-> "Male", num |-> Abs(num), den |-> den]
        ELSE IF NicheIn(niche, tbl.female_dominated)
             THEN [gender |-> "Female", num |-> 60, den |-> 100]
        ELSE IF NicheIn(niche, tbl.male_dominated)
             THEN [gender |-> "Male", num |-> 60, den |-> 100]
        ELSE IF Truthy(first_name) /\ Lower(first_name) \in tbl.male_names
             THEN [gender |-> "Male", num |-> 70, den |-> 100]
        ELSE IF Truthy(first_name) /\ Lower(first_name) \in tbl.female_names
             THEN [gender |-> "Female", num |-> 70, den |-> 100]
        ELSE [gender |-> "Female", num |-> 50, den |-> 100]

\* detect_gender_from_text: the label with its confidence num / den
detect_gender_from_text(bio, captions, first_name, niche, tbl) ==
    CHOOSE r \in
        {GenderFrom(f, m, first_name, niche, tbl) :
            f \in {CountAll(<<bio>> \o captions, FemaleWords, FemaleSign)},
            m \in {CountAll(<<bio>> \o captions, MaleWords, MaleSign)}} : TRUE

-----------------------------------------------------------------------------
(* determine_location_based                                                *)

\* a pattern word matches at i: a blank of the word stands for \s+ where the source
\* writes \s+ (spaces is TRUE) and for one blank in a formatted state name; the
\* position after the match, else 0
RECURSIVE AfterWord(_, _, _, _)
AfterWord(s, i, w, spaces) ==
    IF w = <<>> THEN i
    ELSE IF i > Len(s) THEN 0
    ELSE IF Head(w) = " " /\ spaces
         THEN IF IsSpace(s[i]) THEN AfterWord(s, SkipSpaces(s, i), Tail(w), spaces) ELSE 0
    ELSE IF s[i] = Head(w) THEN AfterWord(s, i + 1, Tail(w), spaces)
    ELSE 0

\* re.search(r'\b(?:w1|w2|...)\b', s): a match starts at a word boundary, with the
\* first letter of the word
SearchWords(s, words, spaces) ==
    \E i \in {j \in 1..Len(s) : WordBoundary(s, j)} :
        \E w \in {v \in words : v[1] = s[i]} :
            \E e \in {AfterWord(s, i, w, spaces)} : e # 0 /\ WordBoundary(s, e)

\* us_indicators[0]: usa|us|united\s+states|america|u\.s\.a?
UsCountryWords ==
    { <<"u", "s", "a">>, <<"u", "s">>, <<"u", "n", "i", "t", "e", "d", " ", "s", "t", "a", "t", "e", "s">>, <<"a", "m", "e", "r", "i", "c", "a">>, <<"u", ".", "s", ".", "a">>, <<"u", ".", "s", ".">> }

\* us_indicators[1]
UsPlaceWords ==
    { <<"n", "y">>, <<"n", "y", "c">>, <<"n", "e", "w", " ", "y", "o", "r", "k">>, <<"l", "a">>, <<"l", "o", "s", " ", "a", "n", "g", "e", "l", "e", "s">>, <<"c", "a", "l", "i", "f", "o", "r", "n", "i", "a">>, <<"c", "a">>,
      <<"f", "l">>, <<"f", "l", "o", "r", "i", "d", "a">>, <<"t", "x">>, <<"t", "e", "x", "a", "s">> }

\* us_states
UsStates ==
    {
      <<"a", "l", "a", "b", "a", "m", "a">>, <<"a", "l", "a", "s", "k", "a">>, <<"a", "r", "i", "z", "o", "n", "a">>, <<"a", "r", "k", "a", "n", "s", "a", "s">>, <<"c", "a", "l", "i", "f", "o", "r", "n", "i", "a">>, <<"c", "o", "l", "o", "r", "a", "d", "o">>,
      <<"c", "o", "n", "n", "e", "c", "t", "i", "c", "u", "t">>, <<"d", "e", "l", "a", "w", "a", "r", "e">>, <<"f", "l", "o", "r", "i", "d", "a">>, <<"g", "e", "o", "r", "g", "i", "a">>, <<"h", "a", "w", "a", "i", "i">>, <<"i", "d", "a", "h", "o">>,
      <<"i", "l", "l", "i", "n", "o", "i", "s">>, <<"i", "n", "d", "i", "a", "n", "a">>, <<"i", "o", "w", "a">>, <<"k", "a", "n", "s", "a", "s">>, <<"k", "e", "n", "t", "u", "c", "k", "y">>, <<"l", "o", "u", "i", "s", "i", "a", "n", "a">>,
      <<"m", "a", "i", "n", "e">>, <<"m", "a", "r", "y", "l", "a", "n", "d">>, <<"m", "a", "s", "s", "a", "c", "h", "u", "s", "e", "t", "t", "s">>, <<"m", "i", "c", "h", "i", "g", "a", "n">>, <<"m", "i", "n", "n", "e", "s", "o", "t", "a">>, <<"m", "i", "s", "s", "i", "s", "s", "i", "p", "p", "i">>,
      <<"m", "i", "s", "s", "o", "u", "r", "i">>, <<"m", "o", "n", "t", "a", "n", "a">>, <<"n", "e", "b", "r", "a", "s", "k", "a">>, <<"n", "e", "v", "a", "d", "a">>, <<"n", "e", "w", " ", "h", "a", "m", "p", "s", "h", "i", "r", "e">>, <<"n", "e", "w", " ", "j", "e", "r", "s", "e", "y">>,
      <<"n", "e", "w", " ", "m", "e", "x", "i", "c", "o">>, <<"n", "e", "w", " ", "y", "o", "r", "k">>, <<"n", "o", "r", "t", "h", " ", "c", "a", "r", "o", "l", "i", "n", "a">>, <<"n", "o", "r", "t", "h", " ", "d", "a", "k", "o", "t", "a">>, <<"o", "h", "i", "o">>, <<"o", "k", "l", "a", "h", "o", "m", "a">>,
      <<"o", "r", "e", "g", "o", "n">>, <<"p", "e", "n", "n", "s", "y", "l", "v", "a", "n", "i", "a">>, <<"r", "h", "o", "d", "e", " ", "i", "s", "l", "a", "n", "d">>, <<"s", "o", "u", "t", "h", " ", "c", "a", "r", "o", "l", "i", "n", "a">>, <<"s", "o", "u", "t", "h", " ", "d", "a", "k", "o", "t", "a">>, <<"t", "e", "n", "n", "e", "s", "s", "e", "e">>,
      <<"t", "e", "x", "a", "s">>, <<"u", "t", "a", "h">>, <<"v", "e", "r", "m", "o", "n", "t">>, <<"v", "i", "r", "g", "i", "n", "i", "a">>, <<"w", "a", "s", "h", "i", "n", "g", "t", "o", "n">>, <<"w", "e", "s", "t", " ", "v", "i", "r", "g", "i", "n", "i", "a">>,
      <<"w", "i", "s", "c", "o", "n", "s", "i", "n">>, <<"w", "y", "o", "m", "i", "n", "g">>
    }

\* state_abbr
StateAbbr ==
    {
      <<"a", "l">>, <<"a", "k">>, <<"a", "z">>, <<"a", "r">>, <<"c", "a">>, <<"c", "o">>, <<"c", "t">>, <<"d", "e">>, <<"f", "l">>, <<"g", "a">>, <<"h", "i">>, <<"i", "d">>,
      <<"i", "l">>, <<"i", "n">>, <<"i", "a">>, <<"k", "s">>, <<"k", "y">>, <<"l", "a">>, <<"m", "e">>, <<"m", "d">>, <<"m", "a">>, <<"m", "i">>, <<"m", "n">>, <<"m", "s">>,
      <<"m", "o">>, <<"m", "t">>, <<"n", "e">>, <<"n", "v">>, <<"n", "h">>, <<"n", "j">>, <<"n", "m">>, <<"n", "y">>, <<"n", "c">>, <<"n", "d">>, <<"o", "h">>, <<"o", "k">>,
      <<"o", "r">>, <<"p", "a">>, <<"r", "i">>, <<"s", "c">>, <<"s", "d">>, <<"t", "n">>, <<"t", "x">>, <<"u", "t">>, <<"v", "t">>, <<"v", "a">>, <<"w", "a">>, <<"w", "v">>,
      <<"w", "i">>, <<"w", "y">>
    }

\* the searches of determine_location_based in the lowercased text
SearchUs(text_lower) ==
    \/ SearchWords(text_lower, UsCountryWords, TRUE)
    \/ SearchWords(text_lower, UsPlaceWords, TRUE)
    \/ SearchWords(text_lower, UsStates, FALSE)
    \/ SearchWords(text_lower, StateAbbr, FALSE)

determine_location_based(s) ==
    IF ~Truthy(s) THEN "Global"
    ELSE IF \E text_lower \in {Lower(s)} : SearchUs(text_lower) THEN "USA"
    ELSE "Global"

-----------------------------------------------------------------------------
(* analyze_locations, parse_location_string                                *)

\* the days of the recent window of analyze_locations
RecentLocationDays == 90

\* s.split(sep): the first cut, then the rest
FirstCut(s, sep) ==
    CHOOSE i \in 1..(Len(s) - Len(sep) + 1) :
        /\ SubSeq(s, i, i + Len(sep) - 1) = sep
        /\ \A j \in 1..(i - 1) : SubSeq(s, j, j + Len(sep) - 1) # sep

RECURSIVE Split(_, _)
Split(s, sep) ==
    IF Contains(s, sep)
    THEN <<SubSeq(s, 1, FirstCut(s, sep) - 1)>>
         \o Split(SubSeq(s, FirstCut(s, sep) + Len(sep), Len(s)), sep)
    ELSE <<s>>

\* s.split(sep, 1)
SplitOnce(s, sep) ==
    IF Contains(s, sep)
    THEN <<SubSeq(s, 1, FirstCut(s, sep) - 1),
           SubSeq(s, FirstCut(s, sep) + Len(sep), Len(s))>>
    ELSE <<s>>

\* country_mapping
CountryMapping(part) ==
    CASE part = <<"U", "A", "E">> -> <<"U", "n", "i", "t", "e", "d", " ", "A", "r", "a", "b", " ", "E", "m", "i", "r", "a", "t", "e", "s">>
      [] part = <<"U", "K">> -> <<"U", "n", "i", "t", "e", "d", " ", "K", "i", "n", "g", "d", "o", "m">>
      [] part = <<"U", "S", "A">> -> <<"U", "n", "i", "t", "e", "d", " ", "S", "t", "a", "t", "e", "s">>
      [] part = <<"U", "S">> -> <<"U", "n", "i", "t", "e", "d", " ", "S", "t", "a", "t", "e", "s">>
      [] OTHER -> NoneText

\* str.isupper(): a cased character, and no lowercase one
IsUpper(s) == (\E i \in 1..Len(s) : s[i] \in Uppers) /\ (\A i \in 1..Len(s) : s[i] \notin Lowers)

\* parse_location_string of a non-empty string (the caller adds count, coordinates)
parse_location_string(location_string) ==
    LET location_parts == Split(location_string, <<",", " ">>)
        second_part == location_parts[2]
        two ==
            IF CountryMapping(second_part) # NoneText
            THEN [state |-> NoneText, country |-> CountryMapping(second_part)]
            ELSE IF Len(second_part) = 2 /\ IsUpper(second_part)
            THEN [state |-> second_part, country |-> <<"U", "n", "i", "t", "e", "d", " ", "S", "t", "a", "t", "e", "s">>]
            ELSE [state |-> NoneText, country |-> second_part]
    IN  [city |-> location_parts[1],
         state |-> IF Len(location_parts) = 1 THEN NoneText
                   ELSE IF Len(location_parts) = 2 THEN two.state
                   ELSE location_parts[2],
         country |-> IF Len(location_parts) = 1 THEN NoneText
                     ELSE IF Len(location_parts) = 2 THEN two.country
                     ELSE location_parts[3],
         postal_code |-> NoneText,
         full_location |-> location_string]

\* the loop over the posts with "if not is_recent: continue": only the recent posts
\* are counted
RECURSIVE CountLocations_RecentOnly(_, _, _)
CountLocations_RecentOnly(st, ps, clock) ==
    IF ps = <<>> THEN st
    ELSE IF Head(ps).location = <<>> \/ ~Truthy(Head(ps).location[1].name)
            \/ ~IsRecentPost(Head(ps), clock, RecentLocationDays)
         THEN CountLocations_RecentOnly(st, Tail(ps), clock)
    ELSE
      LET location == Head(ps).location[1]
          entry ==
              IF ~HasKey(st.location_data, location.name)
              THEN [name |-> location.name, id |-> location.pk,
                    coordinates |-> IF location.lat # 0 /\ location.lng # 0
                                    THEN <<[lat |-> location.lat, lng |-> location.lng]>>
                                    ELSE <<>>,
                    count |-> 1, is_recent |-> TRUE]
              ELSE [Get(st.location_data, location.name) EXCEPT !.count = @ + 1]
          recent == IF location.name \notin Range(st.recent_locations)
                    THEN Append(st.recent_locations, location.name)
                    ELSE st.recent_locations
      IN  CountLocations_RecentOnly([location_data |-> Put(st.location_data, entry),
                                     recent_locations |-> recent], Tail(ps), clock)

\* the loop over the posts: location_data, in insertion order, and recent_locations
RECURSIVE CountLocations(_, _, _)
CountLocations(st, ps, clock) ==
    IF ps = <<>> THEN st
    ELSE IF Head(ps).location = <<>> \/ ~Truthy(Head(ps).location[1].name)
         THEN CountLocations(st, Tail(ps), clock)
    ELSE
      LET location == Head(ps).location[1]
          is_recent == IsRecentPost(Head(ps), clock, RecentLocationDays)
          entry ==
              IF ~HasKey(st.location_data, location.name)
              THEN [name |-> location.name, id |-> location.pk,
                    coordinates |-> IF location.lat # 0 /\ location.lng # 0
                                    THEN <<[lat |-> location.lat, lng |-> location.lng]>>
                                    ELSE <<>>,
                    count |-> 1, is_recent |-> is_recent]
              ELSE [Get(st.location_data, location.name) EXCEPT
                        !.count = @ + 1, !.is_recent = @ \/ is_recent]
          recent == IF is_recent /\ location.name \notin Range(st.recent_locations)
                    THEN Append(st.recent_locations, location.name)
                    ELSE st.recent_locations
      IN  CountLocations([location_data |-> Put(st.location_data, entry),
                          recent_locations |-> recent], Tail(ps), clock)

\* sorted(..., key=count, reverse=True): stable, equal counts keep insertion order
RECURSIVE InsertByCount(_, _)
InsertByCount(sorted, x) ==
    IF sorted = <<>> THEN <<x>>
    ELSE IF x.count > Head(sorted).count THEN <<x>> \o sorted
    ELSE <<Head(sorted)>> \o InsertByCount(Tail(sorted), x)

\* a list left in the order of the first posts of the names
SortByCount_Unsorted(s) == s

RECURSIVE SortByCount(_)
SortByCount(s) ==
    IF s = <<>> THEN <<>>
    ELSE InsertByCount(SortByCount(SubSeq(s, 1, Len(s) - 1)), s[Len(s)])

FirstN(s, n) == SubSeq(s, 1, IF Len(s) < n THEN Len(s) ELSE n)

\* analyze_locations(posts) at a clock; home_location is <<>> for None
analyze_locations(ps, clock) ==
    LET st == CountLocations([location_data |-> <<>>, recent_locations |-> <<>>], ps, clock)
        top_locations ==
            SortByCount([i \in 1..Len(st.location_data) |->
                [name |-> st.location_data[i].name, count |-> st.location_data[i].count]])
    IN  [top_locations |-> FirstN(top_locations, 5),
         recent_locations |-> FirstN(st.recent_locations, 5),
         location_data |-> st.location_data,
         total_locations |-> Len(st.location_data),
         home_location |->
            IF top_locations = <<>> THEN <<>>
            ELSE LET d == parse_location_string(top_locations[1].name)
                 IN  <<[city |-> d.city, state |-> d.state, country |-> d.country,
                        postal_code |-> d.postal_code, full_location |-> d.full_location,
                        count |-> top_locations[1].count,
                        coordinates |-> Get(st.location_data, top_locations[1].name).coordinates]>>]

-----------------------------------------------------------------------------
(* analyze_user_info                                                       *)

\* the minimum count of the home location for it to fill in address fields
HomeLocationMinCount == 3

\* creator_size from follower_count
CreatorSize(follower_count) ==
    IF follower_count = 0 THEN None
    ELSE IF follower_count < 5000 THEN "Nano-Influencer"
    ELSE IF follower_count < 50000 THEN "Micro-Influencer"
    ELSE IF follower_count < 500000 THEN "Mid-Tier Influencer"
    ELSE IF follower_count < 1000000 THEN "Macro-Influencer"
    ELSE "Mega-Influencer"

\* determine_creator_type: the category against category_type_map.json
determine_creator_type(category, tbl) ==
    IF ~Truthy(category) THEN "Content Creator"
    ELSE IF Lower(category) \in tbl.creator_categories THEN "Content Creator"
    ELSE IF Lower(category) \in tbl.business_categories THEN "Business"
    ELSE "BLANK"

\* first_name and last_name from full_name
NameParts(full_name) ==
    IF Contains(full_name, <<" ", "-", " ">>)
    THEN SplitOnce(Split(full_name, <<" ", "-", " ">>)[1], <<" ">>)
    ELSE SplitOnce(full_name, <<" ">>)

\* all_text: the bio and every non-empty caption, one per line
RECURSIVE AllText(_, _)
AllText(acc, ps) ==
    IF ps = <<>> THEN acc
    ELSE AllText(IF Truthy(CaptionOf(Head(ps))) THEN acc \o <<"\n">> \o CaptionOf(Head(ps))
                 ELSE acc, Tail(ps))

\* combined_location: every non-empty part followed by one blank
RECURSIVE JoinWithBlank(_)
JoinWithBlank(parts) ==
    IF parts = <<>> THEN <<>>
    ELSE (IF Truthy(Head(parts)) THEN Head(parts) \o <<" ">> ELSE <<>>)
         \o JoinWithBlank(Tail(parts))

\* audience_age_groups
AudienceAgeGroups(age_group, primary_niche) ==
    IF age_group \in {"18-24", "25-34"} THEN <<"18-24", "25-29", "25-34">>
    ELSE IF age_group = "35-44" THEN <<"25-34", "35-44">>
    ELSE IF age_group = "Under 18" THEN <<"13-17", "18-24">>
    ELSE IF primary_niche \in { <<"T", "r", "a", "v", "e", "l">>, <<"F", "o", "o", "d">> } THEN <<"25-29", "25-34", "35-44">>
    ELSE <<"18-24", "25-29", "25-34">>

\* gender_ratio; detect_gender_from_text returns Female or Male, so the branches on
\* the niche are never taken
GenderRatio(gender) ==
    IF gender = "Female" THEN [female |-> 66, male |-> 34]
    ELSE IF gender = "Male" THEN [female |-> 34, male |-> 66]
    ELSE [female |-> 50, male |-> 50]

\* engagement_quality: engagement_rate = (total / n) / follower_count * 100, compared
\* as the exact fraction 100 * total / (n * follower_count)
EngagementQuality(total, n, follower_count) ==
    IF follower_count = 0 \/ n = 0 THEN None
    ELSE IF 100 * total > 10 * n * follower_count THEN "Excellent"
    ELSE IF 100 * total > 5 * n * follower_count THEN "Good"
    ELSE IF 100 * total > 2 * n * follower_count THEN "Average"
    ELSE IF 100 * total > 0 THEN "Below Average"
    ELSE None

\* analyze_user_info without the special case: the chain's result stands
GenderOverride_Dropped(first_name, g) == g

\* the special case for first names known to be misclassified: a "chris" the chain
\* calls Female becomes Male with confidence 0.85
GenderOverride(first_name, g) ==
    IF Truthy(first_name) /\ Lower(first_name) = <<"c", "h", "r", "i", "s">> /\ g.gender = "Female"
    THEN [gender |-> "Male", num |-> 85, den |-> 100]
    ELSE g

\* the address fields with the home location taken whenever it has a value
AddressField_Overwriting(own, home_location, inferred) ==
    IF home_location # <<>> /\ home_location[1].count >= HomeLocationMinCount
       /\ Truthy(inferred)
    THEN inferred ELSE own

\* the address fields: the profile's, or the home location's where the profile has
\* none and the home location has at least 3 posts
AddressField(own, home_location, inferred) ==
    IF home_location # <<>> /\ home_location[1].count >= HomeLocationMinCount
       /\ ~Truthy(own) /\ Truthy(inferred)
    THEN inferred ELSE own

\* creator_based_on: the US indicators in the bio, the address and the top
\* locations, then the override on a city_name of "United States"
CreatorBasedOn(u, location_analysis) ==
    LET combined_location ==
            JoinWithBlank(<<u.biography, u.address_street, u.city_name, u.state, u.country>>
                \o [i \in 1..Len(location_analysis.top_locations) |->
                       location_analysis.top_locations[i].name])
    IN  IF u.city_name = <<"U", "n", "i", "t", "e", "d", " ", "S", "t", "a", "t", "e", "s">> THEN "USA"
        ELSE IF determine_location_based(combined_location) = "USA" THEN "USA"
        ELSE "Global"

\* the record analyze_user_info returns, from the results of the analyses it calls.
\* The record leaves out email, phone_number, the links and profile_picture, which
\* are read off the bio and the username alone.  gender_confidence is the local
\* variable confidence, which the source computes and does not return.
UserRecord(u, ps, tbl, name_parts, aged, niche_analysis, location_analysis, collaboration_analysis, g, creator_based_on) ==
    LET total == SumSeq([i \in 1..Len(ps) |-> ps[i].like_count + ps[i].comment_count])
        home_location == location_analysis.home_location
        inferred == IF home_location = <<>>
                    THEN [city |-> NoneText, state |-> NoneText, country |-> NoneText]
                    ELSE home_location[1]
    IN  [collaboration_analysis |-> collaboration_analysis,
         niche_analysis |-> niche_analysis,
         location_analysis |-> location_analysis,
         personal_details |->
            [first_name |-> name_parts[1],
             last_name |-> IF Len(name_parts) > 1 THEN name_parts[2] ELSE NoneText,
             user_name |-> u.username,
             age |-> aged.age,
             gender |-> g.gender,
             address |->
                [street_address |-> u.address_street,
                 city |-> AddressField(u.city_name, home_location, inferred.city),
                 state |-> AddressField(u.state, home_location, inferred.state),
                 country |-> AddressField(u.country, home_location, inferred.country),
                 postal_code |-> u.postal_code],
             creator_size |-> CreatorSize(u.follower_count),
             creator_type |-> determine_creator_type(u.category, tbl),
             business_category |-> u.category,
             age_group |-> aged.age_group,
             creator_based_on |-> creator_based_on,
             bio_data |-> u.biography],
         posting_frequency |->
            [overall_frequency |-> None, days_since_last_post |-> <<>>,
             consistent_schedule |-> None, best_days |-> <<>>, best_times |-> <<>>],
         audience_analysis |->
            [\* round(engagement_rate, 2), in hundredths of a percent
             engagement_rate_x100 |->
                IF u.follower_count = 0 \/ Len(ps) = 0 THEN 0
                ELSE RoundHalfEven(10000 * total, Len(ps) * u.follower_count),
             engagement_quality |-> EngagementQuality(total, Len(ps), u.follower_count),
             follower_count |-> u.follower_count,
             estimated_demographics |->
                [age_groups |-> AudienceAgeGroups(aged.age_group, niche_analysis.primary),
                 gender_ratio |-> GenderRatio(g.gender)]],
         username |-> u.username,
         gender_confidence |-> [num |-> g.num, den |-> g.den]]

\* analyze_user_info(user_info, post_info) at a clock, with the reference tables tbl:
\* each analysis is made once, in the order of the source
analyze_user_info(u, ps, clock, tbl) ==
    CHOOSE r \in
        UNION {{UserRecord(u, ps, tbl, name_parts, aged, niche_analysis,
                           location_analysis, collaboration_analysis, g, based) :
                    g \in {GenderOverride(name_parts[1],
                              detect_gender_from_text(u.biography,
                                  [i \in 1..Len(ps) |-> CaptionOf(ps[i])],
                                  name_parts[1], niche_analysis.primary, tbl))},
                    based \in {CreatorBasedOn(u, location_analysis)}} :
                name_parts \in {NameParts(u.full_name)},
                aged \in {extract_age(AllText(u.biography, ps), clock)},
                niche_analysis \in {identify_niche(ps)},
                location_analysis \in {analyze_locations(ps, clock)},
                collaboration_analysis \in {identify_collaborations(ps, clock)}} : TRUE

-----------------------------------------------------------------------------
(* analyze_post_info.  Time is counted in whole days: every taken_at and the *)
(* clock fall on midnight, so the hour of a post is 0.                      *)

DayNames ==
    <<"Thursday", "Friday", "Saturday", "Sunday", "Monday", "Tuesday", "Wednesday">>

\* dt.strftime('%A'): day 0 is Thursday 1970-01-01
DayName(day) == DayNames[(day % 7) + 1]

\* dt.hour
HourOf(day) == 0

\* time_ranges, in the order of the dict
TimeRanges ==
    << [name |-> "Early Morning (5am-8am)", hours |-> 5..8],
       [name |-> "Morning (8am-12pm)", hours |-> 9..12],
       [name |-> "Afternoon (12pm-5pm)", hours |-> 13..17],
       [name |-> "Evening (5pm-10pm)", hours |-> 18..22],
       [name |-> "Night (10pm-5am)", hours |-> {23} \cup 0..4] >>

\* post_timestamps.sort(reverse=True)
RECURSIVE InsertDescending(_, _)
InsertDescending(sorted, x) ==
    IF sorted = <<>> THEN <<x>>
    ELSE IF x > Head(sorted) THEN <<x>> \o sorted
    ELSE <<Head(sorted)>> \o InsertDescending(Tail(sorted), x)

RECURSIVE SortDescending(_)
SortDescending(s) ==
    IF s = <<>> THEN <<>>
    ELSE InsertDescending(SortDescending(SubSeq(s, 1, Len(s) - 1)), s[Len(s)])

\* post_days: the count of every day name, in the order of first occurrence
RECURSIVE CountDays(_, _)
CountDays(acc, timestamps) ==
    IF timestamps = <<>> THEN acc
    ELSE LET day_name == DayName(Head(timestamps))
         IN  CountDays(Put(acc, [name |-> day_name,
                                 count |-> IF HasKey(acc, day_name)
                                           THEN Get(acc, day_name).count + 1 ELSE 1]),
                       Tail(timestamps))

\* overall_frequency from the differences, in days, of consecutive timestamps;
\* avg_days_between_posts is SumSeq(time_diffs) / Len(time_diffs)
OverallFrequency(time_diffs) ==
    LET total == SumSeq(time_diffs)
        n == Len(time_diffs)
    IN  IF total < n THEN "Multiple times daily"
        ELSE IF total < 2 * n THEN "Daily"
        ELSE IF total < 7 * n THEN "Weekly"
        ELSE IF total < 14 * n THEN "Bi-weekly"
        ELSE IF total < 31 * n THEN "Monthly"
        ELSE "Infrequent"

\* consistent_schedule: no difference is further than 2.0 days from the average
ConsistentSchedule(time_diffs) ==
    LET total == SumSeq(time_diffs)
        n == Len(time_diffs)
    IN  \A i \in 1..n : Abs(n * time_diffs[i] - total) <= 2 * n

\* analyze_post_info(post_info, analysis) at a clock.  raised names the exception
\* that leaves the function, None when it returns.
analyze_post_info(ps, analysis, clock) ==
    LET with_timestamp == SelectSeq(ps, LAMBDA p : p.taken_at # 0)
        timestamps == [i \in 1..Len(with_timestamp) |-> with_timestamp[i].taken_at]
        post_timestamps == SortDescending(timestamps)
        time_diffs == [i \in 1..(Len(post_timestamps) - 1) |->
                          post_timestamps[i] - post_timestamps[i + 1]]
        sorted_days == SortByCount(CountDays(<<>>, timestamps))
        range_counts ==
            [r \in 1..Len(TimeRanges) |->
                [name |-> TimeRanges[r].name,
                 count |-> Cardinality({i \in 1..Len(timestamps) :
                                HourOf(timestamps[i]) \in TimeRanges[r].hours})]]
        sorted_ranges == FirstN(SortByCount(range_counts), 2)
        top_ranges == SelectSeq(sorted_ranges, LAMBDA r : r.count > 0)
    IN  IF ps = <<>> THEN [raised |-> None, analysis |-> <<analysis>>]
        \* overall_frequency, days_since_last_post and consistent_schedule are
        \* bound only inside "if post_timestamps:"
        ELSE IF post_timestamps = <<>>
        THEN [raised |-> "UnboundLocalError", analysis |-> <<>>]
        ELSE [raised |-> None,
              analysis |-> <<[analysis EXCEPT !.posting_frequency =
                 [overall_frequency |->
                      IF Len(post_timestamps) > 1 THEN OverallFrequency(time_diffs)
                      ELSE "N/A",
                  days_since_last_post |-> <<clock - post_timestamps[1]>>,
                  consistent_schedule |->
                      IF Len(post_timestamps) > 1
                      THEN IF ConsistentSchedule(time_diffs) THEN "True" ELSE "False"
                      ELSE None,
                  best_days |-> [i \in 1..Len(FirstN(sorted_days, 3)) |-> sorted_days[i].name],
                  best_times |-> [i \in 1..Len(top_ranges) |-> top_ranges[i].name]]]>>]

-----------------------------------------------------------------------------
(* Inputs                                                                  *)

\* the longest post list, and the most analyses of one creator
MaxPosts == 2

\* the clock values: day 20000 is 2024-10-04
Clocks == {20000, 20200}

\* the sequences over S of length at most n
SeqsUpTo(S, n) == UNION {[1..k -> S] : k \in 0..n}

\* a post node; the creator is "me"
BasePost ==
    [user |-> "me", owner |-> "me", coauthor_producers |-> <<>>,
     is_paid_partnership |-> FALSE, caption |-> <<"h", "e", "l", "l", "o">>,
     taken_at |-> 19900, like_count |-> 10, comment_count |-> 2,
     location |-> <<>>]

\* the post nodes identify_collaborations is run on: the base post with one field
\* changed, and three captions at another time
CollabPosts ==
    {BasePost}
    \cup {[BasePost EXCEPT !.is_paid_partnership = TRUE]}
    \cup {[BasePost EXCEPT !.caption = c] :
            c \in { <<>>, <<"n", "e", "w", " ", "#", "a", "d">>, <<"#", "A", "d", "v", "e", "n", "t", "u", "r", "e", " ", "t", "i", "m", "e">>, <<"#", "C", "o", "l", "l", "a", "b", " ", "@", "n", "i", "k", "e">>,
                    <<"l", "o", "v", "e", " ", "@", "n", "i", "k", "e", " ", "#", "n", "i", "k", "e">>,
                    <<"#", "n", "i", "k", "e", " ", "a", "g", "a", "i", "n">>, <<"@", "n", "i", "k", "e", " ", "@", "n", "i", "k", "e">>,
                    <<"#", "n", "i", "k", "e", "s", "h", "o", "e", "s", " ", "#", "a", "d">> }}
    \cup {[BasePost EXCEPT !.owner = o] : o \in {None, "other"}}
    \cup {[BasePost EXCEPT !.coauthor_producers = c] : c \in {<<"me">>, <<None, "other">>}}
    \cup {[BasePost EXCEPT !.user = None]}
    \cup {[BasePost EXCEPT !.taken_at = t] : t \in {0, 19750}}
    \cup {[BasePost EXCEPT !.caption = <<"@", "n", "i", "k", "e", " ", "@", "n", "i", "k", "e">>, !.taken_at = 0],
          [BasePost EXCEPT !.caption = <<"#", "n", "i", "k", "e", " ", "a", "g", "a", "i", "n">>, !.taken_at = 20100],
          [BasePost EXCEPT !.caption = <<"#", "p", "u", "m", "a", " ", "#", "p", "u", "m", "a">>, !.taken_at = 20100,
                           !.like_count = 50]}

-----------------------------------------------------------------------------
(* The state before any component has run                                  *)

IdleCollab == posts = <<>> /\ collab = <<>>
IdleAnalysis == user = <<>> /\ tables = <<>> /\ runs = <<>>
IdleBatch == creators = <<>> /\ batches = <<>> /\ workers = <<>> /\ master = <<>>
             /\ totals = <<>>
IdleGeo == gps_db = <<>> /\ instagram_data = <<>> /\ updated_data = <<>>
           /\ lookups = <<>>
IdleText == text_in = <<>> /\ niche_out = <<>> /\ age_out = <<>> /\ based_out = <<>>
            /\ gender_in = <<>> /\ gender_out = <<>> /\ locations_out = <<>>

-----------------------------------------------------------------------------
(* identify_collaborations on a post list                                  *)

InitCollab ==
    /\ posts \in SeqsUpTo(CollabPosts, MaxPosts)
    /\ now \in Clocks
    /\ collab = <<>>
    /\ IdleAnalysis /\ IdleBatch /\ IdleGeo /\ IdleText

IdentifyCollaborations ==
    /\ collab = <<>>
    /\ collab' = <<identify_collaborations(posts, now)>>
    /\ UNCHANGED <<posts, now, analysisVars, batchVars, geoVars, textVars>>

NextCollab == IdentifyCollaborations

SpecCollab == InitCollab /\ [][NextCollab]_vars

-----------------------------------------------------------------------------
(* C1, C2                                                                  *)

\* the hashtags of a caption, lowercased
LowerTagsOf(post) ==
    {Lower(h) : h \in Range(extract_hashtags(CaptionOf(post)))}

\* a post that satisfies one of the four rules of the status chain
PostIsPaid(p) == p.is_paid_partnership = TRUE
PostHasStatusTag(p) == LowerTagsOf(p) \cap Range(StatusHashtags) # {}
PostOwnerDiffers(p, ps) == p.owner # None /\ p.owner # ps[1].user
PostCoauthorDiffers(p, ps) ==
    \E c \in Range(p.coauthor_producers) : c # None /\ c # ps[1].user

\* C1: identify_collaborations returns status "Active" whenever some post is a paid
\* partnership, or carries one of the status hashtags (in any case), or has an owner
\* username other than the creator's (the first post's user), or a coauthor username
\* other than the creator's; wherever the post stands and whichever rules fail.
C1_ActiveWhenAnyRule ==
    collab # <<>> =>
        ((\E i \in 1..Len(posts) :
              \/ PostIsPaid(posts[i])
              \/ PostHasStatusTag(posts[i])
              \/ PostOwnerDiffers(posts[i], posts)
              \/ PostCoauthorDiffers(posts[i], posts))
          => collab[1].status = "Active")

\* the status is Active through rule 4 alone, met by a post that is not the first
C1_Witness ==
    /\ collab # <<>>
    /\ collab[1].status = "Active"
    /\ Len(posts) = 2
    /\ PostCoauthorDiffers(posts[2], posts)
    /\ \A i \in 1..Len(posts) :
          ~PostIsPaid(posts[i]) /\ ~PostHasStatusTag(posts[i])
          /\ ~PostOwnerDiffers(posts[i], posts)
    /\ ~PostCoauthorDiffers(posts[1], posts)

\* C2: the status is null for every post list with no paid partnership, no hashtag
\* equal to a status hashtag and every owner and coauthor username equal to the
\* creator's; and the status is never anything but "Active" or null.
C2_NullWithoutAnyRule ==
    collab # <<>> =>
        /\ collab[1].status \in {"Active", None}
        /\ (\A i \in 1..Len(posts) :
                /\ ~PostIsPaid(posts[i])
                /\ ~PostHasStatusTag(posts[i])
                /\ ~PostOwnerDiffers(posts[i], posts)
                /\ ~PostCoauthorDiffers(posts[i], posts))
            => collab[1].status = None


-----------------------------------------------------------------------------
(* The per-creator analysis: analyze_user_info, then analyze_post_info      *)

\* the most analyses of one creator
MaxRuns == 2

\* a profile (userInfo data.user); an absent text is the empty text
BaseUser ==
    [full_name |-> <<"C", "h", "r", "i", "s", " ", "L", "e", "e">>, biography |-> <<>>, username |-> "chris_lee",
     follower_count |-> 1000, category |-> <<>>, address_street |-> <<>>,
     city_name |-> <<>>, state |-> <<>>, country |-> <<>>, postal_code |-> <<>>]

FullNames ==
    { <<"C", "h", "r", "i", "s", " ", "L", "e", "e">>, <<"C", "H", "R", "I", "S">>, <<"c", "h", "r", "i", "s", " ", "-", " ", "t", "r", "a", "v", "e", "l">>, <<"A", "n", "n", "a", " ", "B", "e", "l", "l">>, <<"C", "h", "r", "i", "s", "t", "i", "n", "e">>, <<>> }

Biographies ==
    { <<>>, <<"m", "o", "m", " ", "a", "n", "d", " ", "w", "i", "f", "e">>, <<"h", "e", "/", "h", "i", "m">>, <<"b", "o", "r", "n", " ", "i", "n", " ", "1", "9", "9", "0">>, <<"2", "5", " ", "y", "e", "a", "r", "s", " ", "o", "l", "d">>,
      <<"B", "a", "s", "e", "d", " ", "i", "n", " ", "T", "e", "x", "a", "s">> }

\* the profiles: every name with every bio, and the base profile with one other
\* field changed
Users ==
    {[BaseUser EXCEPT !.full_name = n, !.biography = b] :
        n \in FullNames, b \in Biographies}
    \cup {[BaseUser EXCEPT !.follower_count = f] : f \in {0, 100}}
    \cup {[BaseUser EXCEPT !.category = c] :
            c \in { <<"A", "r", "t", "i", "s", "t">>, <<"R", "e", "s", "t", "a", "u", "r", "a", "n", "t">>, <<"O", "t", "h", "e", "r">> }}
    \cup {[BaseUser EXCEPT !.city_name = <<"U", "n", "i", "t", "e", "d", " ", "S", "t", "a", "t", "e", "s">>]}
    \cup {[BaseUser EXCEPT !.country = <<"F", "r", "a", "n", "c", "e">>]}
    \cup {[BaseUser EXCEPT !.username = None]}

\* the reference tables, without and with the name "chris"
TablesWith(male_names) ==
    [male_names |-> male_names, female_names |-> { <<"a", "n", "n", "a">> },
     female_dominated |-> { <<"b", "e", "a", "u", "t", "y">>, <<"f", "a", "s", "h", "i", "o", "n">> },
     male_dominated |-> { <<"g", "a", "m", "i", "n", "g">>, <<"t", "e", "c", "h">> },
     creator_categories |-> { <<"a", "r", "t", "i", "s", "t">> },
     business_categories |-> { <<"r", "e", "s", "t", "a", "u", "r", "a", "n", "t">> }]

Tables == {TablesWith({ <<"j", "o", "h", "n">> }), TablesWith({ <<"j", "o", "h", "n">>, <<"c", "h", "r", "i", "s">> })}

\* a post at the Texas State Capitol; coordinates are in hundredths of a degree
AustinPost ==
    [BasePost EXCEPT !.taken_at = 19950,
        !.location = <<[name |-> <<"A", "u", "s", "t", "i", "n", ",", " ", "T", "X">>, pk |-> 7, lat |-> 3027, lng |-> -9774]>>]

BeautyPost == [BasePost EXCEPT !.caption = <<"#", "b", "e", "a", "u", "t", "y", " ", "#", "m", "a", "k", "e", "u", "p", " ", "s", "h", "e">>]
GamingPost == [BasePost EXCEPT !.caption = <<"l", "o", "v", "e", " ", "@", "n", "i", "k", "e", " ", "#", "g", "a", "m", "i", "n", "g">>, !.taken_at = 19750]

\* the post nodes of the analysed creators
AnalysisPosts ==
    {BasePost, [BasePost EXCEPT !.taken_at = 0], BeautyPost, GamingPost, AustinPost}

\* the post lists: every short list, and three posts from one place
PostLists ==
    SeqsUpTo(AnalysisPosts, MaxPosts) \cup {<<AustinPost, AustinPost, AustinPost>>}

\* the analysed creators: every profile with a few post lists, and the base profile
\* with every post list
\* profiles with a part of the address filled in
AddressedUsers ==
    {[BaseUser EXCEPT !.country = <<"F", "r", "a", "n", "c", "e">>],
     [BaseUser EXCEPT !.city_name = <<"D", "a", "l", "l", "a", "s">>],
     [BaseUser EXCEPT !.state = <<"O", "h", "i", "o">>, !.country = <<"C", "a", "n", "a", "d", "a">>]}

AnalysisInputs ==
    (Users \X {<<>>, <<BeautyPost>>, <<GamingPost>>}) \cup ({BaseUser} \X PostLists)
    \cup (AddressedUsers \X {<<AustinPost, AustinPost>>, <<AustinPost, AustinPost, AustinPost>>})

InitAnalyze ==
    /\ \E in \in AnalysisInputs : user = <<in[1]>> /\ posts = in[2]
    /\ tables \in {<<t>> : t \in Tables}
    /\ now \in Clocks
    /\ runs = <<>>
    /\ IdleBatch /\ IdleGeo /\ IdleText /\ collab = <<>>

\* what the scoring and fallback chain of detect_gender_from_text returns for the
\* analysed creator, before the override of analyze_user_info
ChainResult ==
    detect_gender_from_text(user[1].biography,
        [i \in 1..Len(posts) |-> CaptionOf(posts[i])],
        NameParts(user[1].full_name)[1], identify_niche(posts).primary, tables[1])

\* analysis = analyze_user_info(user_info, post_info) of analyze_creator_data; the
\* run keeps what the chain returned inside the call
AnalyzeUserInfo ==
    /\ Len(runs) < MaxRuns
    /\ runs # <<>> => runs[Len(runs)].done
    /\ runs' = Append(runs,
          [at |-> now,
           user_info |-> analyze_user_info(user[1], posts, now, tables[1]),
           chain |-> ChainResult,
           raised |-> None, analysis |-> <<>>, done |-> FALSE])
    /\ UNCHANGED <<posts, user, tables, now, collabVars, batchVars, geoVars, textVars>>

\* analysis = analyze_post_info(post_info, analysis)
AnalyzePostInfo ==
    /\ runs # <<>>
    /\ ~runs[Len(runs)].done
    /\ LET out == analyze_post_info(posts, runs[Len(runs)].user_info, now)
       IN  runs' = [runs EXCEPT ![Len(runs)].raised = out.raised,
                                ![Len(runs)].analysis = out.analysis,
                                ![Len(runs)].done = TRUE]
    /\ UNCHANGED <<posts, user, tables, now, collabVars, batchVars, geoVars, textVars>>

\* time passes between two analyses
Tick ==
    /\ \E later \in Clocks : later > now /\ now' = later
    /\ UNCHANGED <<posts, collabVars, analysisVars, batchVars, geoVars, textVars>>

NextAnalyze == AnalyzeUserInfo \/ AnalyzePostInfo \/ Tick

SpecAnalyze == InitAnalyze /\ [][NextAnalyze]_vars

-----------------------------------------------------------------------------
(* C3, C4, C7                                                              *)

\* the first name is "chris", in any case
IsChris(first_name) == Truthy(first_name) /\ Lower(first_name) = <<"c", "h", "r", "i", "s">>

\* the confidence is num / den
ConfidenceIs(c, num, den) == c.num * den = num * c.den

\* C3 as claimed: for a first name "chris", whatever the bio, the captions and the
\* niche, analyze_user_info decides gender Male with confidence 0.85.
C3_ChrisMaleAt085 ==
    \A i \in 1..Len(runs) :
        IsChris(runs[i].user_info.personal_details.first_name) =>
            /\ runs[i].user_info.personal_details.gender = "Male"
            /\ ConfidenceIs(runs[i].user_info.gender_confidence, 85, 100)

\* C3 as amended: for a first name "chris" the gender is Male; the confidence is
\* 0.85 where the chain said Female, and the chain's own where it said Male.
C3_ChrisMaleOverride ==
    \A i \in 1..Len(runs) :
        IsChris(runs[i].user_info.personal_details.first_name) =>
            /\ runs[i].user_info.personal_details.gender = "Male"
            /\ runs[i].chain.gender = "Female" =>
                  ConfidenceIs(runs[i].user_info.gender_confidence, 85, 100)
            /\ runs[i].chain.gender = "Male" =>
                  ConfidenceIs(runs[i].user_info.gender_confidence,
                               runs[i].chain.num, runs[i].chain.den)

\* a "chris" the chain calls Female on the content, not on the fallback, decided Male
C3_Witness ==
    /\ runs # <<>>
    /\ IsChris(runs[1].user_info.personal_details.first_name)
    /\ runs[1].chain.gender = "Female" /\ ~ConfidenceIs(runs[1].chain, 50, 100)
    /\ runs[1].user_info.personal_details.gender = "Male"
    /\ ConfidenceIs(runs[1].user_info.gender_confidence, 85, 100)

\* a creator without signal: an empty bio, and posts with no timestamp, no hashtag
\* and no location
NoSignal ==
    /\ user[1].biography = <<>>
    /\ \A i \in 1..Len(posts) :
          /\ posts[i].taken_at = 0
          /\ extract_hashtags(CaptionOf(posts[i])) = <<>>
          /\ posts[i].location = <<>>

\* C4: for a creator without signal, a non-empty post list with no taken_at
\* included, analyze_user_info followed by analyze_post_info raises nothing and
\* returns a record whose unresolved posting fields are the null and empty defaults.
C4_NoSignalNeverRaises ==
    \A i \in 1..Len(runs) :
        (NoSignal /\ runs[i].done) =>
            /\ runs[i].raised = None
            /\ runs[i].analysis # <<>>
            /\ runs[i].analysis[1].posting_frequency.days_since_last_post = <<>>
            /\ runs[i].analysis[1].posting_frequency.best_days = <<>>

\* the fields of an analysis record that do not come from the current time: without
\* the recent brands and their count, the order and the recency of the top
\* collaborations, the recent locations and the recency of the locations, the age,
\* the age group and the audience age groups
TimeIndependent(a) ==
    [a EXCEPT
        !.collaboration_analysis.recent_brands_with_source = <<>>,
        !.collaboration_analysis.metrics.recent_count = 0,
        !.collaboration_analysis.top_collaborations =
            {[@[k] EXCEPT !.is_recent = FALSE] : k \in 1..Len(@)},
        !.location_analysis.recent_locations = <<>>,
        !.location_analysis.location_data =
            [k \in 1..Len(@) |-> [@[k] EXCEPT !.is_recent = FALSE]],
        !.personal_details.age = <<>>,
        !.personal_details.age_group = None,
        !.audience_analysis.estimated_demographics.age_groups = <<>>]

\* C7 as claimed: two runs of analyze_user_info on the same profile, post list and
\* reference tables produce the same analysis record, whatever the current time of
\* each run.
C7_SameRecordAtAnyTime ==
    \A i, j \in 1..Len(runs) : runs[i].user_info = runs[j].user_info

\* C7 as amended: two runs on the same inputs produce the same record when they
\* happen at the same time, and at different times records that agree on every field
\* that does not come from the current time.
C7_SameRecordButForTheTime ==
    \A i, j \in 1..Len(runs) :
        /\ runs[i].at = runs[j].at => runs[i].user_info = runs[j].user_info
        /\ TimeIndependent(runs[i].user_info) = TimeIndependent(runs[j].user_info)

\* two runs at different times whose records differ, in the fields of the time only
C7_Witness ==
    /\ Len(runs) >= 2
    /\ runs[1].at # runs[2].at
    /\ runs[1].user_info # runs[2].user_info
    /\ runs[1].user_info.location_analysis.home_location # <<>>
    /\ TimeIndependent(runs[1].user_info) = TimeIndependent(runs[2].user_info)

-----------------------------------------------------------------------------
(* process_creator_batch and main                                          *)

\* determine_location_based_on_geo: the bounding boxes of the mainland, Alaska and
\* Hawaii, in millionths of a degree (coordinates are in hundredths); coordinates are
\* <<>> for None
determine_location_based_on_geo(coordinates) ==
    IF coordinates = <<>> THEN "Global"
    ELSE LET lat == 10000 * coordinates[1].lat
             lng == 10000 * coordinates[1].lng
         IN  IF 24396308 <= lat /\ lat <= 49384358
                /\ -125000000 <= lng /\ lng <= -66934570 THEN "USA"
             ELSE IF 51214183 <= lat /\ lat <= 71365162
                     /\ \/ -179148909 <= lng /\ lng <= -129974167
                        \/ 129974167 <= lng /\ lng <= 180000000 THEN "USA"
             ELSE IF 18910361 <= lat /\ lat <= 22236428
                     /\ -160242167 <= lng /\ lng <= -154806773 THEN "USA"
             ELSE "Global"

\* the terms looked for, as substrings, in the bio and the address fields
UsTerms == { <<"u", "n", "i", "t", "e", "d", " ", "s", "t", "a", "t", "e", "s">>, <<"u", "s", "a">>, <<"a", "m", "e", "r", "i", "c", "a">>, <<"u", "s">>, <<"u", ".", "s", ".", "a">>, <<"u", ".", "s", ".">> }

\* us_cities of process_creator_batch
UsCities ==
    { <<"n", "e", "w", " ", "y", "o", "r", "k">>, <<"l", "o", "s", " ", "a", "n", "g", "e", "l", "e", "s">>, <<"c", "h", "i", "c", "a", "g", "o">>, <<"h", "o", "u", "s", "t", "o", "n">>, <<"p", "h", "o", "e", "n", "i", "x">>,
      <<"p", "h", "i", "l", "a", "d", "e", "l", "p", "h", "i", "a">>, <<"s", "a", "n", " ", "a", "n", "t", "o", "n", "i", "o">>, <<"s", "a", "n", " ", "d", "i", "e", "g", "o">>, <<"d", "a", "l", "l", "a", "s">>, <<"s", "a", "n", " ", "j", "o", "s", "e">>,
      <<"a", "u", "s", "t", "i", "n">>, <<"j", "a", "c", "k", "s", "o", "n", "v", "i", "l", "l", "e">>, <<"f", "o", "r", "t", " ", "w", "o", "r", "t", "h">>, <<"c", "o", "l", "u", "m", "b", "u", "s">>, <<"s", "a", "n", " ", "f", "r", "a", "n", "c", "i", "s", "c", "o">>,
      <<"c", "h", "a", "r", "l", "o", "t", "t", "e">>, <<"i", "n", "d", "i", "a", "n", "a", "p", "o", "l", "i", "s">>, <<"s", "e", "a", "t", "t", "l", "e">>, <<"d", "e", "n", "v", "e", "r">>, <<"w", "a", "s", "h", "i", "n", "g", "t", "o", "n", " ", "d", "c">>,
      <<"b", "o", "s", "t", "o", "n">>, <<"n", "a", "s", "h", "v", "i", "l", "l", "e">>, <<"v", "e", "g", "a", "s">>, <<"n", "y", "c">>, <<"l", "a">> }

\* us_indicator_found of process_creator_batch
UsIndicatorFound(personal_details) ==
    LET address == personal_details.address
        location_fields == <<personal_details.bio_data, address.street_address,
                             address.city, address.state, address.country>>
    IN  \/ \E i \in 1..Len(location_fields) :
              /\ Truthy(location_fields[i])
              /\ \E field_lower \in {Lower(location_fields[i])} :
                    \E term \in UsTerms : Contains(field_lower, term)
        \/ /\ Truthy(personal_details.bio_data)
           /\ \E bio_lower \in {Lower(personal_details.bio_data)} :
                 \/ SearchWords(bio_lower, StateAbbr, FALSE)
                 \/ SearchWords(bio_lower, UsCities, FALSE)
        \/ address.city = <<"U", "n", "i", "t", "e", "d", " ", "S", "t", "a", "t", "e", "s">>

\* what process_creator_batch does to an analysis before it appends it: the two
\* dates (as days: the creation of userInfo.json and the clock), then the overrides
\* of creator_based_on
FinishAnalysis(analysis, created, clock) ==
    LET home_location == analysis.location_analysis.home_location
        usa == \/ /\ home_location # <<>>
                  /\ determine_location_based_on_geo(home_location[1].coordinates) = "USA"
               \/ UsIndicatorFound(analysis.personal_details)
    IN  [k \in DOMAIN analysis \cup {"scraped_date_time", "analyzed_date_time"} |->
            IF k = "scraped_date_time" THEN created
            ELSE IF k = "analyzed_date_time" THEN clock
            ELSE IF k = "personal_details" /\ usa
                 THEN [analysis.personal_details EXCEPT !.creator_based_on = "USA"]
            ELSE analysis[k]]

\* the exception types of the inner handler of process_creator_batch
InnerHandled == {"JSONDecodeError", "KeyError", "TypeError", "ValueError"}

\* the analysis of one creator whose two files exist: the exception that leaves it
\* (None without one) and the analysis.  load_json_file returns None for a file it
\* cannot parse, and analyze_user_info then fails on None.get.
AnalyzeCreator(c, clock, tbl) ==
    IF c.user_info # "ok" \/ c.post_info # "ok"
    THEN [raised |-> "AttributeError", analysis |-> <<>>]
    ELSE CHOOSE out \in {analyze_post_info(c.posts, analysis, clock) :
                            analysis \in {analyze_user_info(c.user, c.posts, clock, tbl)}} :
             TRUE

\* errors after an exception: "errors += 1" in the handler for the four types and in
\* the handler for every other exception
ErrorsAfter_InnerOnly(errors, raised) ==
    IF raised \in InnerHandled THEN errors + 1 ELSE errors

ErrorsAfter(errors, raised) ==
    IF raised \in InnerHandled THEN errors + 1 ELSE errors + 1

\* one iteration of "for creator in creator_batch" on the worker's locals
ProcessOne(w, c, clock, tbl) ==
    IF c.user_info = "absent" \/ c.post_info = "absent"
    THEN [w EXCEPT !.skipped = @ + 1, !.pos = @ + 1]
    ELSE LET out == AnalyzeCreator(c, clock, tbl)
         IN  IF out.raised # None
             THEN [w EXCEPT !.errors = ErrorsAfter(@, out.raised), !.pos = @ + 1]
             ELSE [w EXCEPT
                     !.batch_results =
                         Append(@, FinishAnalysis(out.analysis[1], c.created, clock)),
                     !.successful = @ + 1, !.pos = @ + 1]

\* creator_folders[i:i + batch_size] for i in range(0, len(creator_folders), batch_size)
CreatorBatches(creator_folders, process_count) ==
    LET n == Len(creator_folders)
        batch_size == IF n \div process_count > 1 THEN n \div process_count ELSE 1
    IN  [b \in 1..((n + batch_size - 1) \div batch_size) |->
            SubSeq(creator_folders, (b - 1) * batch_size + 1,
                   IF b * batch_size < n THEN b * batch_size ELSE n)]

\* the placeholder of a creator of the CSV file that has no folder
Placeholder_NoAudience(username) ==
    [collaboration_analysis |-> [brands |-> <<>>, potential_collaborations |-> <<>>],
     niche_analysis |-> [primary |-> <<>>, secondary |-> <<>>, hashtags |-> <<>>],
     location_analysis |-> [locations |-> <<>>, home_location |-> <<>>],
     personal_details |-> [user_name |-> username],
     posting_frequency |-> [best_days |-> <<>>, best_times |-> <<>>],
     username |-> username, missing_data |-> TRUE]

Placeholder(username) ==
    [collaboration_analysis |-> [brands |-> <<>>, potential_collaborations |-> <<>>],
     niche_analysis |-> [primary |-> <<>>, secondary |-> <<>>, hashtags |-> <<>>],
     location_analysis |-> [locations |-> <<>>, home_location |-> <<>>],
     personal_details |->
        [first_name |-> <<>>, last_name |-> <<>>, user_name |-> username,
         age |-> <<>>, gender |-> "",
         address |-> [street_address |-> <<>>, city |-> <<>>, state |-> <<>>,
                      country |-> <<>>, postal_code |-> <<>>],
         creator_size |-> "Unknown", creator_type |-> "Unknown",
         business_category |-> NoneText, age_group |-> "", creator_based_on |-> "",
         bio_data |-> <<>>],
     posting_frequency |->
        [overall_frequency |-> None, days_since_last_post |-> <<>>,
         consistent_schedule |-> None, best_days |-> <<>>, best_times |-> <<>>],
     audience_analysis |->
        [engagement_rate_x100 |-> 0, engagement_quality |-> None, follower_count |-> 0,
         estimated_demographics |->
            [age_groups |-> <<>>, gender_ratio |-> [female |-> 50, male |-> 50]]],
     username |-> username, missing_data |-> TRUE]

RECURSIVE Flatten(_)
Flatten(ss) == IF ss = <<>> THEN <<>> ELSE Head(ss) \o Flatten(Tail(ss))

\* the most creators of a run, and the most processes of the pool
MaxCreators == 2
MaxProcesses == 2

\* the day userInfo.json was created
CreatedDay == 19990

\* the creators: the state of the two files of the folder (folder is FALSE for a
\* creator of the CSV file without a folder), the profile and the posts
CreatorKind(folder, user_info, post_info, ps) ==
    [folder |-> folder, user_info |-> user_info, post_info |-> post_info,
     user |-> BaseUser, posts |-> ps, created |-> CreatedDay]

CreatorKinds ==
    { CreatorKind(TRUE, "ok", "ok", <<GamingPost>>),
      CreatorKind(TRUE, "ok", "ok", <<AustinPost>>),
      CreatorKind(TRUE, "ok", "ok", <<[BasePost EXCEPT !.taken_at = 0]>>),
      CreatorKind(TRUE, "broken", "ok", <<>>),
      CreatorKind(TRUE, "absent", "ok", <<>>),
      CreatorKind(TRUE, "ok", "absent", <<>>),
      CreatorKind(FALSE, "absent", "absent", <<>>),
      [CreatorKind(TRUE, "ok", "ok", <<GamingPost>>)
          EXCEPT !.user.biography = <<"m", "u", "s", "i", "c", " ", "l", "o", "v", "e", "r">>] }

\* the i-th creator has the username i
WithNames(kinds) ==
    [i \in 1..Len(kinds) |->
        [kinds[i] EXCEPT !.user.username = ToString(i)] @@ [name |-> ToString(i)]]

\* creator_folders and missing_creators, as indexes into creators
CreatorFolders == SelectSeq([i \in 1..Len(creators) |-> i], LAMBDA i : creators[i].folder)
MissingCreators == SelectSeq([i \in 1..Len(creators) |-> i], LAMBDA i : ~creators[i].folder)

InitBatch ==
    /\ creators \in {WithNames(kinds) : kinds \in SeqsUpTo(CreatorKinds, MaxCreators)}
    /\ tables = <<TablesWith({})>>
    /\ now \in Clocks
    /\ batches = <<>> /\ workers = <<>> /\ master = <<>> /\ totals = <<>>
    /\ IdleCollab /\ user = <<>> /\ runs = <<>> /\ IdleGeo /\ IdleText

\* main up to pool.starmap: the batches, and one activation for each
SplitBatches ==
    /\ batches = <<>>
    /\ CreatorFolders # <<>>
    /\ \E process_count \in 1..MaxProcesses :
          batches' = <<CreatorBatches(CreatorFolders, process_count)>>
    /\ workers' = [b \in 1..Len(batches'[1]) |->
                      [pos |-> 0, batch_results |-> <<>>, successful |-> 0,
                       skipped |-> 0, errors |-> 0]]
    /\ UNCHANGED <<posts, now, collabVars, analysisVars, creators, master, totals, geoVars,
                   textVars>>

\* process_creator_batch: the next creator of batch b
ProcessCreator(b) ==
    /\ workers[b].pos < Len(batches[1][b])
    /\ workers' = [workers EXCEPT ![b] =
          ProcessOne(@, creators[batches[1][b][@.pos + 1]], now, tables[1])]
    /\ UNCHANGED <<posts, now, collabVars, analysisVars, creators, batches, master,
                   totals, geoVars, textVars>>

\* a pool whose starmap returns as soon as one worker has finished its batch
StarmapReturned_AnyWorker(ws, bs) ==
    \E b \in 1..Len(ws) : ws[b].pos = Len(bs[b])

\* pool.starmap blocks until every task has returned its result
StarmapReturned(ws, bs) ==
    \A b \in 1..Len(ws) : ws[b].pos = Len(bs[b])

\* main once starmap has returned: the results of the batches in order, then the
\* placeholders, counted as successful
MergeResults ==
    /\ batches # <<>>
    /\ master = <<>>
    /\ StarmapReturned(workers, batches[1])
    /\ master' = <<Flatten([b \in 1..Len(workers) |-> workers[b].batch_results])
                   \o [i \in 1..Len(MissingCreators) |->
                          Placeholder(creators[MissingCreators[i]].name)]>>
    /\ totals' = <<[total_creators |-> Len(CreatorFolders) + Len(MissingCreators),
                    total_successful |->
                        SumSeq([b \in 1..Len(workers) |-> workers[b].successful])
                        + Len(MissingCreators),
                    total_skipped |-> SumSeq([b \in 1..Len(workers) |-> workers[b].skipped]),
                    total_errors |-> SumSeq([b \in 1..Len(workers) |-> workers[b].errors])]>>
    /\ UNCHANGED <<posts, now, collabVars, analysisVars, creators, batches, workers,
                   geoVars, textVars>>

NextBatch ==
    \/ SplitBatches
    \/ \E b \in 1..Len(workers) : ProcessCreator(b)
    \/ MergeResults

SpecBatch == InitBatch /\ [][NextBatch]_vars

-----------------------------------------------------------------------------
(* C5, C6                                                                  *)

SixKeys ==
    {"collaboration_analysis", "niche_analysis", "location_analysis",
     "personal_details", "posting_frequency", "audience_analysis"}

\* C5: every record of the master collection, a creator's analysis and a placeholder
\* alike, has the six top-level keys collaboration_analysis, niche_analysis,
\* location_analysis, personal_details, posting_frequency and audience_analysis.
C5_SixKeysInEveryRecord ==
    master # <<>> =>
        \A k \in 1..Len(master[1]) : SixKeys \subseteq DOMAIN master[1][k]

\* a master collection that holds an analysis and a placeholder
C5_Witness ==
    /\ master # <<>>
    /\ \E k \in 1..Len(master[1]) : "missing_data" \in DOMAIN master[1][k]
    /\ \E k \in 1..Len(master[1]) :
          /\ "missing_data" \notin DOMAIN master[1][k]
          /\ master[1][k].location_analysis.home_location # <<>>

\* what becomes of a creator of a batch, from its files and its posts alone
IsSkipped(c) == c.user_info = "absent" \/ c.post_info = "absent"
IsFailing(c) ==
    /\ ~IsSkipped(c)
    /\ \/ c.user_info = "broken" \/ c.post_info = "broken"
       \/ c.posts # <<>> /\ \A i \in 1..Len(c.posts) : c.posts[i].taken_at = 0
IsGood(c) == ~IsSkipped(c) /\ ~IsFailing(c)

\* the creators batch b has been through, and how many of them are of a kind
Processed(b) == SubSeq(batches[1][b], 1, workers[b].pos)
KindOf(c) == IF IsSkipped(c) THEN "skipped" ELSE IF IsFailing(c) THEN "errors" ELSE "successful"
CountOf(b, kind) == Len(SelectSeq(Processed(b), LAMBDA i : KindOf(creators[i]) = kind))

\* C6: in process_creator_batch every creator gone through is counted in exactly one
\* of successful, skipped and errors: skipped iff a required file is absent, errors
\* iff its analysis raises, successful otherwise; so the three add up to the creators
\* gone through (to len(batch) at the return), len(batch_results) = successful, and
\* the creators after a failing one are processed and counted all the same.
C6_EachCreatorCountedOnce ==
    /\ \A b \in 1..Len(workers) :
          /\ workers[b].skipped = CountOf(b, "skipped")
          /\ workers[b].errors = CountOf(b, "errors")
          /\ workers[b].successful = CountOf(b, "successful")
          /\ workers[b].successful + workers[b].skipped + workers[b].errors
                = workers[b].pos
          /\ Len(workers[b].batch_results) = workers[b].successful
    /\ master # <<>> =>
          \A b \in 1..Len(workers) :
              workers[b].successful + workers[b].skipped + workers[b].errors
                  = Len(batches[1][b])

\* a batch that has returned, in which a good creator comes after a failing one
C6_Witness ==
    \E b \in 1..Len(workers) :
        /\ Len(batches[1][b]) = 2
        /\ workers[b].pos = 2
        /\ IsFailing(creators[batches[1][b][1]])
        /\ IsGood(creators[batches[1][b][2]])
        /\ workers[b].errors = 1 /\ workers[b].successful = 1
        /\ Len(workers[b].batch_results) = 1

-----------------------------------------------------------------------------
(* location_processor: determine_location and process_instagram_data.       *)
(* Coordinates are in hundredths of a degree and distances in metres.  A     *)
(* Python dict is a record, a key it may lack is a field the record may      *)
(* lack, and a dict that is iterated is a sequence in the order of its keys. *)

\* haversine_distance, tabulated in metres for the coordinates of the model: each
\* entry is the value of the formula of the source, rounded to the metre
HaversineMetres ==
    <<3027, -9774, 3027, -9774>> :> 0 @@
    <<3027, -9774, 3026, -9777>> :> 3088 @@
    <<3027, -9774, 3278, -9680>> :> 292971 @@
    <<3027, -9774, 4886, 235>> :> 8198992 @@
    <<3026, -9778, 3027, -9774>> :> 3999 @@
    <<3026, -9778, 3026, -9777>> :> 960 @@
    <<3026, -9778, 3278, -9680>> :> 295202 @@
    <<3026, -9778, 4886, 235>> :> 8202405 @@
    <<3040, -9770, 3027, -9774>> :> 14956 @@
    <<3040, -9770, 3026, -9777>> :> 16955 @@
    <<3040, -9770, 3278, -9680>> :> 278031 @@
    <<3040, -9770, 4886, 235>> :> 8185735 @@
    <<3100, -10000, 3027, -9774>> :> 230955 @@
    <<3100, -10000, 3026, -9777>> :> 228678 @@
    <<3100, -10000, 3278, -9680>> :> 361147 @@
    <<3100, -10000, 4886, 235>> :> 8283865 @@
    <<4000, -8000, 3027, -9774>> :> 1936603 @@
    <<4000, -8000, 3026, -9777>> :> 1939546 @@
    <<4000, -8000, 3278, -9680>> :> 1700683 @@
    <<4000, -8000, 4886, 235>> :> 6288320 @@
    <<4886, 235, 3027, -9774>> :> 8198992 @@
    <<4886, 235, 3026, -9777>> :> 8201757 @@
    <<4886, 235, 3278, -9680>> :> 7933783 @@
    <<4886, 235, 4886, 235>> :> 0 @@
    <<5150, -12, 5151, -13>> :> 1310 @@
    <<5150, -12, 5150, -12>> :> 0 @@
    <<5151, -13, 5151, -13>> :> 0 @@
    <<5151, -13, 5150, -12>> :> 1310 @@
    <<2520, 5527, 2520, 5527>> :> 0 @@
    <<-3000, 1000, 3027, -9774>> :> 13196757 @@
    <<-3000, 1000, 3026, -9777>> :> 13199087 @@
    <<-3000, 1000, 3278, -9680>> :> 13205613 @@
    <<-3000, 1000, 4886, 235>> :> 8801743

haversine_distance(lat1, lon1, lat2, lon2) == HaversineMetres[<<lat1, lon1, lat2, lon2>>]

\* the default of max_distance_km of find_city and of find_landmark, and the
\* distance of find_county, in metres
MaxCityMetres == 50000
MaxLandmarkMetres == 5000
MaxCountyMetres == 1000

is_within_bounds(lat, lng, bounds) ==
    /\ bounds.south <= lat /\ lat <= bounds.north
    /\ bounds.west <= lng /\ lng <= bounds.east

\* a scan that keeps the last of the entries whose bounds hold the point
RECURSIVE FirstWithin_LastWins(_, _, _)
FirstWithin_LastWins(entries, lat, lng) ==
    IF entries = <<>> THEN <<>>
    ELSE IF FirstWithin_LastWins(Tail(entries), lat, lng) # <<>>
         THEN FirstWithin_LastWins(Tail(entries), lat, lng)
    ELSE IF is_within_bounds(lat, lng, Head(entries).bounds) THEN <<Head(entries)>>
    ELSE <<>>

\* the first of the entries whose bounds hold the point, as a sequence of length 0
\* or 1
RECURSIVE FirstWithin(_, _, _)
FirstWithin(entries, lat, lng) ==
    IF entries = <<>> THEN <<>>
    ELSE IF is_within_bounds(lat, lng, Head(entries).bounds) THEN <<Head(entries)>>
    ELSE FirstWithin(Tail(entries), lat, lng)

\* find_country: the first country whose bounds hold the point, <<>> without one
find_country(lat, lng, db) == FirstWithin(db.countries, lat, lng)

\* subdivision_types, in the order they are tried
SubdivisionTypes ==
    <<"states", "provinces", "regions", "emirates", "countries", "governorates">>

\* find_subdivision: the first subdivision, by type and then by key, whose bounds
\* hold the point
RECURSIVE FindSubdivisionFrom(_, _, _, _)
FindSubdivisionFrom(t, lat, lng, country_data) ==
    IF t > Len(SubdivisionTypes) THEN <<>>
    ELSE IF SubdivisionTypes[t] \in DOMAIN country_data
            /\ FirstWithin(country_data[SubdivisionTypes[t]], lat, lng) # <<>>
         THEN FirstWithin(country_data[SubdivisionTypes[t]], lat, lng)
    ELSE FindSubdivisionFrom(t + 1, lat, lng, country_data)

find_subdivision(lat, lng, country_data) == FindSubdivisionFrom(1, lat, lng, country_data)

\* the loop of find_city and of find_landmark: the entry closest to the point, the
\* first of the closest ones, among those not farther than limit (-1 for no limit);
\* best is <<>> or the closest so far
RECURSIVE Closest(_, _, _, _, _)
Closest(best, entries, lat, lng, limit) ==
    IF entries = <<>> THEN best
    ELSE LET distance == haversine_distance(lat, lng, Head(entries).lat, Head(entries).lng)
             closer == (best = <<>> \/ distance < best[1].distance)
                       /\ (limit < 0 \/ distance <= limit)
         IN  Closest(IF closer THEN <<[entry |-> Head(entries), distance |-> distance]>>
                     ELSE best,
                     Tail(entries), lat, lng, limit)

\* find_city: the name of the closest major city when it is within 50 km
find_city(lat, lng, subdivision_data) ==
    IF "major_cities" \notin DOMAIN subdivision_data THEN NoneText
    ELSE LET closest == Closest(<<>>, subdivision_data.major_cities, lat, lng, -1)
         IN  IF closest # <<>> /\ closest[1].distance <= MaxCityMetres
             THEN closest[1].entry.name ELSE NoneText

\* find_landmark: the closest landmark within 5 km, <<>> without one
find_landmark(lat, lng, subdivision_data) ==
    IF "landmarks" \notin DOMAIN subdivision_data THEN <<>>
    ELSE LET closest == Closest(<<>>, subdivision_data.landmarks, lat, lng,
                                MaxLandmarkMetres)
         IN  IF closest = <<>> THEN <<>> ELSE <<closest[1].entry>>

\* the loop of find_county: the county of the first landmark that has one and is
\* within 1 km
RECURSIVE FirstCounty(_, _, _)
FirstCounty(landmarks, lat, lng) ==
    IF landmarks = <<>> THEN NoneText
    ELSE IF /\ "county" \in DOMAIN Head(landmarks)
            /\ haversine_distance(lat, lng, Head(landmarks).lat, Head(landmarks).lng)
                   <= MaxCountyMetres
         THEN Head(landmarks).county
    ELSE FirstCounty(Tail(landmarks), lat, lng)

find_county(lat, lng, subdivision_data) ==
    IF "landmarks" \in DOMAIN subdivision_data
    THEN FirstCounty(subdivision_data.landmarks, lat, lng)
    ELSE NoneText

\* ", ".join(parts)
RECURSIVE JoinWithComma(_)
JoinWithComma(parts) ==
    IF parts = <<>> THEN <<>>
    ELSE IF Len(parts) = 1 THEN parts[1]
    ELSE parts[1] \o <<",", " ">> \o JoinWithComma(Tail(parts))

\* a result that writes the county of a landmark for every country
LocationResult_CountyAnywhere(lat, lng, country, sub) ==
    LET landmark == IF sub = <<>> THEN <<>> ELSE find_landmark(lat, lng, sub[1])
        named == landmark # <<>> /\ Truthy(landmark[1].name)
        landmark_name == IF named THEN landmark[1].name ELSE NoneText
        landmark_city == IF named /\ "city" \in DOMAIN landmark[1]
                         THEN landmark[1].city ELSE NoneText
        landmark_county == IF named /\ "county" \in DOMAIN landmark[1]
                           THEN landmark[1].county ELSE NoneText
        city == IF sub = <<>> THEN NoneText
                ELSE IF Truthy(landmark_city) THEN landmark_city
                ELSE find_city(lat, lng, sub[1])
        county == IF sub = <<>> THEN NoneText
                  ELSE IF country[1].code = "USA" /\ ~Truthy(landmark_county)
                       THEN find_county(lat, lng, sub[1])
                  ELSE landmark_county
        state == IF sub = <<>> THEN NoneText ELSE sub[1].name
        location_parts ==
            (IF Truthy(landmark_name) THEN <<landmark_name>> ELSE <<>>)
            \o (IF Truthy(city) /\ (~Truthy(landmark_name) \/ landmark_name # city)
                THEN <<city>> ELSE <<>>)
            \o (IF Truthy(county)
                THEN <<county \o <<" ", "C", "o", "u", "n", "t", "y">>>> ELSE <<>>)
            \o (IF Truthy(state) THEN <<state>> ELSE <<>>)
            \o (IF Truthy(country[1].name) THEN <<country[1].name>> ELSE <<>>)
    IN  [city |-> city, state |-> state, country |-> country[1].name,
         county |-> county, landmark |-> landmark_name, postal_code |-> NoneText,
         full_location |-> IF location_parts # <<>> THEN JoinWithComma(location_parts)
                           ELSE country[1].name,
         approximate |-> TRUE]

\* the result of determine_location from what was found: the country and the
\* subdivision are <<>> when not found
LocationResult(lat, lng, country, sub) ==
    LET landmark == IF sub = <<>> THEN <<>> ELSE find_landmark(lat, lng, sub[1])
        named == landmark # <<>> /\ Truthy(landmark[1].name)
        landmark_name == IF named THEN landmark[1].name ELSE NoneText
        landmark_city == IF named /\ "city" \in DOMAIN landmark[1]
                         THEN landmark[1].city ELSE NoneText
        landmark_county == IF named /\ "county" \in DOMAIN landmark[1]
                           THEN landmark[1].county ELSE NoneText
        city == IF sub = <<>> THEN NoneText
                ELSE IF Truthy(landmark_city) THEN landmark_city
                ELSE find_city(lat, lng, sub[1])
        county == IF sub = <<>> THEN NoneText
                  ELSE IF country[1].code = "USA" /\ ~Truthy(landmark_county)
                       THEN find_county(lat, lng, sub[1])
                  ELSE landmark_county
        state == IF sub = <<>> THEN NoneText ELSE sub[1].name
        location_parts ==
            (IF Truthy(landmark_name) THEN <<landmark_name>> ELSE <<>>)
            \o (IF Truthy(city) /\ (~Truthy(landmark_name) \/ landmark_name # city)
                THEN <<city>> ELSE <<>>)
            \o (IF Truthy(county) /\ country[1].code = "USA"
                THEN <<county \o <<" ", "C", "o", "u", "n", "t", "y">>>> ELSE <<>>)
            \o (IF Truthy(state) THEN <<state>> ELSE <<>>)
            \o (IF Truthy(country[1].name) THEN <<country[1].name>> ELSE <<>>)
    IN  [city |-> city, state |-> state, country |-> country[1].name,
         county |-> county, landmark |-> landmark_name, postal_code |-> NoneText,
         full_location |-> IF location_parts # <<>> THEN JoinWithComma(location_parts)
                           ELSE country[1].name,
         approximate |-> TRUE]

\* determine_location(lat, lng, gps_db)
determine_location(lat, lng, db) ==
    LET country == find_country(lat, lng, db)
    IN  IF country = <<>>
        THEN [city |-> NoneText, state |-> NoneText, country |-> NoneText,
              county |-> NoneText, landmark |-> NoneText, postal_code |-> NoneText,
              full_location |-> NoneText, approximate |-> TRUE]
        ELSE LocationResult(lat, lng, country, find_subdivision(lat, lng, country[1]))

\* gps_db once determine_location has returned: the function reads the database
\* and assigns only to its own result
GpsDbAfter_Consumed(lat, lng, db) ==
    [db EXCEPT !.countries =
        SelectSeq(@, LAMBDA c : <<c>> # find_country(lat, lng, db))]

GpsDbAfter(lat, lng, db) == db

\* record[key] = value on a dict that may lack the key
SetKey(record, key, value) ==
    [k \in DOMAIN record \cup {key} |-> IF k = key THEN value ELSE record[k]]

\* the assignments of process_instagram_data to home_location
PatchHomeLocation_Replaced(home_location, location_data) ==
    [k \in DOMAIN location_data \ {"approximate"} |-> location_data[k]]

PatchHomeLocation(home_location, location_data) ==
    LET named == SetKey(SetKey(SetKey(home_location, "city", location_data.city),
                               "state", location_data.state),
                        "country", location_data.country)
        marked == IF Truthy(location_data.landmark)
                  THEN SetKey(named, "landmark", location_data.landmark) ELSE named
        counties == IF Truthy(location_data.county)
                    THEN SetKey(marked, "county", location_data.county) ELSE marked
    IN  IF Truthy(location_data.full_location)
        THEN SetKey(counties, "full_location", location_data.full_location)
        ELSE counties

\* the body of the loop of process_instagram_data on home_location, which is <<>>
\* for None
ResolveHome_AnyHome(home_location, db) ==
    IF home_location = <<>> THEN home_location
    ELSE IF "coordinates" \in DOMAIN home_location[1] /\ home_location[1].coordinates # <<>>
         THEN <<PatchHomeLocation(home_location[1],
                    determine_location(home_location[1].coordinates[1].lat,
                                       home_location[1].coordinates[1].lng, db))>>
    ELSE <<PatchHomeLocation(home_location[1], determine_location(0, 0, [countries |-> <<>>]))>>

ResolveHome(home_location, db) ==
    IF /\ home_location # <<>>
       /\ "coordinates" \in DOMAIN home_location[1]
       /\ home_location[1].coordinates # <<>>
    THEN <<PatchHomeLocation(home_location[1],
               determine_location(home_location[1].coordinates[1].lat,
                                  home_location[1].coordinates[1].lng, db))>>
    ELSE home_location

\* process_instagram_data on one user of the copy
UpdateUser(u, db) ==
    IF /\ "location_analysis" \in DOMAIN u
       /\ "home_location" \in DOMAIN u.location_analysis
    THEN [u EXCEPT !.location_analysis.home_location = ResolveHome(@, db)]
    ELSE u

\* process_instagram_data: the output file and the count returned
process_instagram_data(data, db) ==
    [updated_data |-> [i \in 1..Len(data) |-> UpdateUser(data[i], db)],
     user_count |-> Len(data)]

-----------------------------------------------------------------------------
(* The geo-resolution pass and single lookups on small databases            *)

MaxRecords == 2
MaxLookups == 2

Bounds(south, north, west, east) ==
    [south |-> south, north |-> north, west |-> west, east |-> east]

\* the entries of gps_location_database.json have this shape
Texas ==
    [code |-> "TX", name |-> <<"T", "e", "x", "a", "s">>, bounds |-> Bounds(2584, 3650, -10665, -9351),
     major_cities |-> <<[name |-> <<"A", "u", "s", "t", "i", "n">>, lat |-> 3027, lng |-> -9774],
                        [name |-> <<"D", "a", "l", "l", "a", "s">>, lat |-> 3278, lng |-> -9680]>>,
     landmarks |-> <<[name |-> <<"T", "e", "x", "a", "s", " ", "S", "t", "a", "t", "e", " ", "C", "a", "p", "i", "t", "o", "l">>, lat |-> 3027, lng |-> -9774,
                      city |-> <<"A", "u", "s", "t", "i", "n">>, county |-> <<"T", "r", "a", "v", "i", "s">>],
                     [name |-> <<"Z", "i", "l", "k", "e", "r", " ", "P", "a", "r", "k">>, lat |-> 3026, lng |-> -9777]>>]

UnitedStates ==
    [code |-> "USA", name |-> <<"U", "n", "i", "t", "e", "d", " ", "S", "t", "a", "t", "e", "s">>,
     bounds |-> Bounds(2400, 4900, -12500, -6600), states |-> <<Texas>>]

France ==
    [code |-> "FRA", name |-> <<"F", "r", "a", "n", "c", "e">>, bounds |-> Bounds(4100, 5100, -500, 1000),
     regions |-> <<[code |-> "IDF", name |-> <<"I", "l", "e", "-", "d", "e", "-", "F", "r", "a", "n", "c", "e">>,
                    bounds |-> Bounds(4800, 4950, 140, 360),
                    major_cities |-> <<[name |-> <<"P", "a", "r", "i", "s">>, lat |-> 4886, lng |-> 235]>>]>>]

\* a country without subdivisions whose bounds hold those of the United States
NorthAmerica ==
    [code |-> "NAM", name |-> <<"N", "o", "r", "t", "h", " ", "A", "m", "e", "r", "i", "c", "a">>,
     bounds |-> Bounds(1000, 7000, -17000, -5000)]

Databases ==
    {[countries |-> <<UnitedStates, France>>],
     [countries |-> <<NorthAmerica, UnitedStates, France>>]}

\* the State Capitol, a point in Texas far from every city, a point of the United
\* States outside Texas, and Paris
LookupPoints ==
    {[lat |-> 3027, lng |-> -9774], [lat |-> 3100, lng |-> -10000],
     [lat |-> 4000, lng |-> -8000], [lat |-> 4886, lng |-> 235]}

\* a home_location as analyze_locations writes it
HomeAt(lat, lng) ==
    [city |-> <<"A", "u", "s", "t", "i", "n">>, state |-> <<"T", "X">>, country |-> <<"U", "S">>, postal_code |-> NoneText,
     full_location |-> <<"A", "u", "s", "t", "i", "n", ",", " ", "T", "X">>, count |-> 3,
     coordinates |-> <<[lat |-> lat, lng |-> lng]>>]

\* null, without the coordinates key, with null coordinates, at the State Capitol,
\* near Zilker Park, and outside every country
HomeLocations ==
    {<<>>,
     <<[k \in DOMAIN HomeAt(0, 0) \ {"coordinates"} |-> HomeAt(0, 0)[k]]>>,
     <<[HomeAt(0, 0) EXCEPT !.coordinates = <<>>]>>,
     <<HomeAt(3027, -9774)>>, <<HomeAt(3026, -9778)>>, <<HomeAt(-3000, 1000)>>}

\* records of master_analyzed.json, of which one has no location_analysis and one a
\* location_analysis without home_location
GeoRecords ==
    {[username |-> "creator", missing_data |-> FALSE,
      location_analysis |-> [total_locations |-> 1, home_location |-> h]] :
        h \in HomeLocations}
    \cup {[username |-> "creator", missing_data |-> TRUE],
          [username |-> "creator", missing_data |-> TRUE,
           location_analysis |-> [total_locations |-> 0]]}

InitGeo ==
    /\ gps_db \in Databases
    /\ instagram_data \in SeqsUpTo(GeoRecords, MaxRecords)
    /\ updated_data = <<>>
    /\ lookups = <<>>
    /\ now \in {20000}
    /\ IdleCollab /\ IdleAnalysis /\ IdleBatch /\ IdleText

\* a call of determine_location on the database
DetermineLocation ==
    /\ Len(lookups) < MaxLookups
    /\ \E p \in LookupPoints :
          /\ lookups' = Append(lookups,
                [lat |-> p.lat, lng |-> p.lng, gps_db |-> gps_db,
                 result |-> determine_location(p.lat, p.lng, gps_db)])
          /\ gps_db' = GpsDbAfter(p.lat, p.lng, gps_db)
    /\ UNCHANGED <<posts, now, collabVars, analysisVars, batchVars, instagram_data,
                   updated_data, textVars>>

\* process_instagram_data from the input file to the output file
ProcessInstagramData ==
    /\ updated_data = <<>>
    /\ updated_data' = <<process_instagram_data(instagram_data, gps_db)>>
    /\ UNCHANGED <<posts, now, collabVars, analysisVars, batchVars, gps_db,
                   instagram_data, lookups, textVars>>

NextGeo == DetermineLocation \/ ProcessInstagramData

SpecGeo == InitGeo /\ [][NextGeo]_vars

-----------------------------------------------------------------------------
(* Claims on the geo-resolution pass                                         *)

SamePoint(a, b) == a.lat = b.lat /\ a.lng = b.lng

HasHome(u) ==
    "location_analysis" \in DOMAIN u /\ "home_location" \in DOMAIN u.location_analysis

NoCoordinates(home_location) ==
    \/ home_location = <<>>
    \/ "coordinates" \notin DOMAIN home_location[1]
    \/ home_location[1].coordinates = <<>>

PassDone == updated_data # <<>> /\ Len(updated_data[1].updated_data) = Len(instagram_data)

HomeIn(i) == instagram_data[i].location_analysis.home_location
HomeOut(i) == updated_data[1].updated_data[i].location_analysis.home_location

\* C9: the pass leaves home_location as it was in every record whose home_location
\* is null, has no coordinates key, or has null coordinates.
C9_NoCoordinatesNoChange ==
    updated_data # <<>>
    => /\ PassDone
       /\ \A i \in 1..Len(instagram_data) :
             HasHome(instagram_data[i]) /\ NoCoordinates(HomeIn(i))
             => /\ HasHome(updated_data[1].updated_data[i])
                /\ HomeOut(i) = HomeIn(i)

\* the pass has run on a record with a named home but no coordinates, next to a
\* record it has resolved
C9_Witness ==
    /\ PassDone
    /\ \E i, j \in 1..Len(instagram_data) :
          /\ HasHome(instagram_data[i]) /\ HomeIn(i) # <<>> /\ NoCoordinates(HomeIn(i))
          /\ Truthy(HomeIn(i)[1].city)
          /\ HasHome(instagram_data[j]) /\ HomeOut(j) # HomeIn(j)

PatchedKeys == {"city", "state", "country", "landmark", "county", "full_location"}

\* the keys of a dict other than some, with their values
Without(record, keys) == [k \in DOMAIN record \ keys |-> record[k]]

SameButHome(old, new) ==
    /\ Without(new, {"location_analysis"}) = Without(old, {"location_analysis"})
    /\ ("location_analysis" \in DOMAIN new) = ("location_analysis" \in DOMAIN old)
    /\ "location_analysis" \in DOMAIN old
       => /\ Without(new.location_analysis, {"home_location"})
             = Without(old.location_analysis, {"home_location"})
          /\ HasHome(new) = HasHome(old)

SameButPatched(old, new) ==
    /\ (new = <<>>) = (old = <<>>)
    /\ old # <<>> => Without(new[1], PatchedKeys) = Without(old[1], PatchedKeys)

\* C10: the pass is a field-level patch: as many records in the same order, each
\* the same outside location_analysis.home_location, and inside home_location every
\* key but city, state, country, landmark, county and full_location as it was
\* (count, coordinates and postal_code among them).
C10_FieldLevelPatch ==
    updated_data # <<>>
    => /\ PassDone
       /\ updated_data[1].user_count = Len(instagram_data)
       /\ \A i \in 1..Len(instagram_data) :
             /\ SameButHome(instagram_data[i], updated_data[1].updated_data[i])
             /\ HasHome(instagram_data[i]) => SameButPatched(HomeIn(i), HomeOut(i))

\* the pass has run on two records of different shapes and has given one of them a
\* landmark and a county while its count and coordinates are as they were
C10_Witness ==
    /\ PassDone
    /\ Len(instagram_data) = 2
    /\ instagram_data[1] # instagram_data[2]
    /\ \E i \in 1..2 :
          /\ HasHome(instagram_data[i]) /\ HomeIn(i) # <<>>
          /\ "landmark" \notin DOMAIN HomeIn(i)[1]
          /\ "landmark" \in DOMAIN HomeOut(i)[1] /\ "county" \in DOMAIN HomeOut(i)[1]
          /\ HomeOut(i)[1].city # HomeIn(i)[1].city \/ HomeOut(i)[1].state # HomeIn(i)[1].state
          /\ HomeOut(i)[1].count = 3 /\ HomeOut(i)[1].coordinates # <<>>

-----------------------------------------------------------------------------
(* identify_niche on the captions of a post list                            *)

\* the most posts of a list identify_niche is run on
MaxNichePosts == 2

RECURSIVE Repeated(_, _)
Repeated(s, n) == IF n = 0 THEN <<>> ELSE s \o Repeated(s, n - 1)

\* captions: hashtags in mixed case, hashtags in several categories, in several
\* keywords of one category, in none
NicheCaptions ==
    { <<"#", "f", "i", "t", "f", "a", "m">>, <<"#", "F", "i", "t", "F", "a", "m", " ", "#", "g", "y", "m">>, <<"#", "f", "i", "t", "n", "e", "s", "s", " ", "#", "F", "i", "t", "n", "e", "s", "s">>, <<"#", "h", "e", "a", "l", "t", "h", "y", "f", "o", "o", "d">>,
      <<"#", "m", "o", "n", "e", "y", "a", "r", "t">>, <<"#", "d", "o", "g", " ", "#", "D", "o", "g", " ", "#", "o", "u", "t", "f", "i", "t">>, <<"#", "t", "r", "a", "v", "e", "l", ",", " ", "#", "t", "r", "a", "v", "e", "l", " ", "#", "y", "u", "m", "m", "y">>,
      <<"#", "h", "e", "l", "l", "o", " ", "w", "o", "r", "l", "d">>, <<"n", "o", " ", "t", "a", "g", "s">>, <<>> }

\* a caption with a hashtag of ten categories six times and a hashtag of one other
\* category once: sixty-one points, of which one category has one
LongCaptions ==
    { Repeated(<<"#", "t", "v", "a", "p", "p", "a", "r", "t", "d", "o", "g", "m", "o", "m", "g", "y", "m", "l", "i", "f", "e", "f", "o", "o", "d", "t", "r", "i", "p", "g", "a", "m", "e", " ">>, 6) \o <<"#", "j", "o", "k", "e">> }

NichePostLists ==
    SeqsUpTo({[BasePost EXCEPT !.caption = c] : c \in NicheCaptions}, MaxNichePosts)
    \cup {<<[BasePost EXCEPT !.caption = c]>> : c \in LongCaptions}

InitNiche ==
    /\ posts \in NichePostLists
    /\ now \in {20000}
    /\ collab = <<>>
    /\ IdleAnalysis /\ IdleBatch /\ IdleGeo /\ IdleText

\* niche_analysis = identify_niche(posts)
IdentifyNiche ==
    /\ niche_out = <<>>
    /\ niche_out' = <<NicheLocals(posts)>>
    /\ UNCHANGED <<posts, now, collabVars, analysisVars, batchVars, geoVars, text_in,
                   age_out, based_out, gender_in, gender_out, locations_out>>

NextNiche == IdentifyNiche

SpecNiche == InitNiche /\ [][NextNiche]_vars

-----------------------------------------------------------------------------
(* Claims on identify_niche                                                  *)

Categories == 1..Len(NicheCategories)

\* the scores and the result of the call, once it has returned
Scores == niche_out[1].niche_scores
Distribution == niche_out[1].result.distribution_x10

SomeScore == niche_out # <<>> /\ \E c \in Categories : Scores[c] > 0

\* the sum of the returned percentages, in tenths of a percent
DistributionSum == SumSeq([i \in 1..Len(Distribution) |-> Distribution[i].pct])

\* the scored categories the returned distribution leaves out
Dropped == Cardinality({c \in Categories : Scores[c] > 0}) - Len(Distribution)

\* C11 as claimed: when some category scores, the returned percentages sum to 100
\* within the rounding of one-decimal percentages (0.05 for each of the twenty
\* categories at most, so within 1.0).
C11_DistributionSumsTo100 ==
    SomeScore
    => /\ DistributionSum - 1000 <= 10
       /\ 1000 - DistributionSum <= 10

\* C11 as amended: the returned percentages sum to 100 within 0.05 for each returned
\* value when no scored category is left out; every category left out, being below
\* 2 percent, lowers the sum by less than 1.95 more.
C11_DistributionSumsTo100ButDropped ==
    SomeScore
    => /\ 2 * (DistributionSum - 1000) <= Len(Distribution)
       /\ 2 * (1000 - DistributionSum) <= Len(Distribution) + 39 * Dropped

\* six categories with the same score, all returned, whose sixths are rounded up
C11_Witness ==
    /\ SomeScore
    /\ Len(Distribution) = 6
    /\ Dropped = 0
    /\ DistributionSum = 1002

\* c comes before d in the ranking: a higher score, or the same score and declared
\* earlier
RankedBefore(c, d) == Scores[c] > Scores[d] \/ (Scores[c] = Scores[d] /\ c < d)

\* the category with r categories before it
Ranked(r) == CHOOSE c \in Categories : Cardinality({d \in Categories : RankedBefore(d, c)}) = r

\* C12: primary is the category with the highest score, the first declared of them,
\* and null exactly when every score is zero; secondary is, in ranking order, the
\* categories ranked second to fourth that have a score above zero, so at most three
\* and never primary.
C12_PrimaryAndSecondary ==
    niche_out # <<>>
    => LET result == niche_out[1].result
           next == SelectSeq(<<Ranked(1), Ranked(2), Ranked(3)>>, LAMBDA c : Scores[c] > 0)
       IN  /\ (result.primary = NoneText) = (\A c \in Categories : Scores[c] = 0)
           /\ result.primary # NoneText =>
                 /\ result.primary = NicheCategories[Ranked(0)].name
                 /\ \A c \in Categories : Scores[c] <= Scores[Ranked(0)]
                 /\ \A c \in Categories :
                       Scores[c] = Scores[Ranked(0)] => Ranked(0) <= c
           /\ result.secondary = [i \in 1..Len(next) |-> NicheCategories[next[i]].name]
           /\ Len(result.secondary) <= 3
           /\ \A i \in 1..Len(result.secondary) : result.secondary[i] # result.primary

\* three categories tied at the top: the first declared is primary and the other two
\* are secondary in the declared order
C12_Witness ==
    /\ niche_out # <<>>
    /\ Scores[4] = 1 /\ Scores[5] = 1 /\ Scores[6] = 1
    /\ \A c \in Categories : Scores[c] <= 1
    /\ niche_out[1].result.primary = <<"F", "i", "t", "n", "e", "s", "s">>
    /\ niche_out[1].result.secondary = << <<"H", "e", "a", "l", "t", "h">>, <<"F", "o", "o", "d">> >>

\* the hashtags of the captions, lowercased, one entry for each occurrence
Occurrences ==
    LET all == AllHashtags(posts) IN [i \in 1..Len(all) |-> Lower(all[i])]

\* C13: the score of a category is the number of hashtag occurrences whose
\* lowercased hashtag contains a keyword of the category, which is the sum over the
\* distinct lowercased hashtags of their counts: a hashtag with several keywords of
\* the category counts once, and a hashtag may count for several categories.
C13_ScoreIsMatchingOccurrences ==
    niche_out # <<>>
    => \A occurrences \in {Occurrences} :
       LET counts == niche_out[1].hashtag_counts
       IN  /\ \A i, j \in 1..Len(counts) : counts[i].name = counts[j].name => i = j
           /\ \A i \in 1..Len(counts) :
                 /\ counts[i].name = Lower(counts[i].name)
                 /\ counts[i].count
                       = Cardinality({k \in 1..Len(occurrences) :
                                         occurrences[k] = counts[i].name})
           /\ \A k \in 1..Len(occurrences) :
                 \E i \in 1..Len(counts) : counts[i].name = occurrences[k]
           /\ \A c \in Categories :
                 Scores[c] = Cardinality({k \in 1..Len(occurrences) :
                    \E w \in 1..Len(NicheCategories[c].keywords) :
                        Contains(occurrences[k], NicheCategories[c].keywords[w])})

\* #FitFam and #fitfam counted as one hashtag that adds two to Fitness, next to #gym
C13_Witness ==
    /\ niche_out # <<>>
    /\ \E i \in 1..Len(niche_out[1].hashtag_counts) :
          /\ niche_out[1].hashtag_counts[i].name = <<"f", "i", "t", "f", "a", "m">>
          /\ niche_out[1].hashtag_counts[i].count = 2
    /\ Len(niche_out[1].hashtag_counts) = 2
    /\ Scores[4] = 3

-----------------------------------------------------------------------------
(* extract_age and determine_location_based on a text                        *)

\* texts with an age in each pattern and in each age group, with a birth year, with
\* a life-stage keyword, with none; a null text
AgeTexts ==
    { <<"I", "'", "m", " ", "2", "3">>, <<"I", " ", "a", "m", " ", "2", "3">>, <<"i", "'", "m", " ", "1", "7">>, <<"I", "'", "m", " ", "2", "3", "0">>, <<"I", " ", "a", "m", " ", "1", "2", ",", " ", "a", "g", "e", " ", "1", "4">>, <<"a", "g", "e", ":", " ", "2", "9">>,
      <<"3", "0", " ", "y", "e", "a", "r", "s", " ", "o", "l", "d">>, <<"3", "4", "y", "r", "s", " ", "o", "l", "d">>, <<"4", "4", " ", "y", ".", "o">>, <<"4", "5", "y", "o">>, <<"I", "'", "m", " ", "9", "9">>, <<"I", "'", "m", " ", "5">>,
      <<"I", "'", "m", " ", "1", "2">>, <<"b", "o", "r", "n", " ", "i", "n", " ", "1", "9", "9", "0">>, <<"b", ".", " ", "2", "0", "1", "5">>, <<"e", "s", "t", ".", " ", "1", "9", "3", "0">>, <<"c", "o", "l", "l", "e", "g", "e", " ", "s", "t", "u", "d", "e", "n", "t">>,
      <<"n", "e", "w", " ", "j", "o", "b", "\n", "I", "'", "m", " ", "2", "5">>, <<"h", "e", "l", "l", "o">>, <<>>, NoneText }

\* texts with a US term as a word, in another case, inside a longer word, with
\* several blanks, with a term that ends in a full stop; texts without any
PlaceTexts ==
    { <<"I", " ", "l", "i", "v", "e", " ", "i", "n", " ", "N", "Y">>, <<"P", "a", "r", "i", "s", " ", "l", "o", "v", "e", "r">>, <<"I", " ", "l", "i", "v", "e", " ", "i", "n", " ", "P", "a", "r", "i", "s">>, <<"u", "s", "a", "g", "e">>, <<"f", "r", "o", "m", " ", "t", "h", "e", " ", "U", "S", "A">>,
      <<"N", "e", "w", " ", " ", "Y", "o", "r", "k">>, <<"t", "e", "x", "a", "s", "_", "g", "i", "r", "l">>, <<"T", "e", "x", "a", "s", "2">>, <<"N", "E", "W", " ", "H", "A", "M", "P", "S", "H", "I", "R", "E">>, <<"n", "e", "w", " ", " ", "h", "a", "m", "p", "s", "h", "i", "r", "e">>,
      <<"h", "i", " ", "t", "h", "e", "r", "e">>, <<"v", "a", "c", "a", "t", "i", "o", "n">>, <<"A", "m", "e", "r", "i", "c", "a">>, <<"U", ".", "S", ".", " ", "b", "a", "s", "e", "d">>, <<"f", "r", "o", "m", " ", "t", "h", "e", " ", "U", ".", "S", ".">>,
      <<"U", ".", "S", ".", "A", ".", " ", "b", "a", "s", "e", "d">>, <<"l", "o", "v", "e", " ", "t", "h", "e", " ", "U", ".", "S", ".", "A", "r", "m", "y">>, <<"O", "h", "i", "o", "!">>, <<"B", "e", "r", "l", "i", "n">> }

InitText ==
    /\ text_in \in {<<t>> : t \in AgeTexts \cup PlaceTexts}
    /\ now \in Clocks
    /\ niche_out = <<>> /\ age_out = <<>> /\ based_out = <<>>
    /\ gender_in = <<>> /\ gender_out = <<>> /\ locations_out = <<>>
    /\ IdleCollab /\ IdleAnalysis /\ IdleBatch /\ IdleGeo

\* age, age_group = extract_age(text)
ExtractAge ==
    /\ age_out = <<>>
    /\ age_out' = <<extract_age(text_in[1], now)>>
    /\ UNCHANGED <<posts, now, collabVars, analysisVars, batchVars, geoVars, text_in,
                   niche_out, based_out, gender_in, gender_out, locations_out>>

\* creator_based_on = determine_location_based(text)
DetermineLocationBased ==
    /\ based_out = <<>>
    /\ based_out' = <<determine_location_based(text_in[1])>>
    /\ UNCHANGED <<posts, now, collabVars, analysisVars, batchVars, geoVars, text_in,
                   niche_out, age_out, gender_in, gender_out, locations_out>>

NextText == ExtractAge \/ DetermineLocationBased

SpecText == InitText /\ [][NextText]_vars

-----------------------------------------------------------------------------
(* Claims on extract_age and determine_location_based                        *)

\* the buckets of the age groups, in the order they are tried
AgeBuckets ==
    << [below |-> 18, group |-> "Under 18"], [below |-> 25, group |-> "18-24"],
       [below |-> 30, group |-> "25-29"], [below |-> 35, group |-> "25-34"],
       [below |-> 45, group |-> "35-44"] >>

FirstBucket(age) ==
    IF \E k \in 1..Len(AgeBuckets) : age < AgeBuckets[k].below
    THEN AgeBuckets[CHOOSE k \in 1..Len(AgeBuckets) :
            /\ age < AgeBuckets[k].below
            /\ \A j \in 1..(k - 1) : age >= AgeBuckets[j].below].group
    ELSE "45+"

\* the age returned comes from a direct age mention, not from a birth year
FromDirectMention ==
    /\ age_out # <<>> /\ age_out[1].age # <<>>
    /\ DirectAge(1, text_in[1]) >= 0

\* C14: an age that extract_age returns from a direct age mention is between 13 and
\* 100 and comes with the first bucket that holds it, in the order Under 18, 18-24,
\* 25-29, 25-34, 35-44, 45+; the text "I'm 23" gives (23, "18-24").
C14_DirectAgeAndBucket ==
    /\ FromDirectMention
       => /\ 13 <= age_out[1].age[1] /\ age_out[1].age[1] <= 100
          /\ age_out[1].age_group = FirstBucket(age_out[1].age[1])
    /\ age_out # <<>> /\ text_in[1] = <<"I", "'", "m", " ", "2", "3">>
       => age_out[1] = [age |-> <<23>>, age_group |-> "18-24"]

\* "age: 29" has given 29 in the group 25-29, not 25-34
C14_Witness ==
    /\ FromDirectMention
    /\ text_in[1] = <<"a", "g", "e", ":", " ", "2", "9">>
    /\ age_out[1] = [age |-> <<29>>, age_group |-> "25-29"]

\* the word w stands in s at i as a whole word: no word character before it and
\* none after it; a blank of w stands for any run of blanks where the source
\* writes \s+
WholeWordAt(s, i, w, spaces) ==
    /\ i = 1 \/ ~IsWordChar(s[i - 1])
    /\ \E e \in {AfterWord(s, i, w, spaces)} :
          e # 0 /\ (e > Len(s) \/ ~IsWordChar(s[e]))

HasWholeWord(s, words, spaces) ==
    \E w \in words : \E i \in 1..Len(s) : WholeWordAt(s, i, w, spaces)

\* C15: determine_location_based returns "USA" exactly when the text holds, as a
\* whole word in any case, a US country synonym, a state name or a state
\* abbreviation of its lists, and "Global" otherwise, for an empty or null text too.
C15_UsaIffWholeWord ==
    based_out # <<>>
    => /\ based_out[1] \in {"USA", "Global"}
       /\ (based_out[1] = "USA")
          = (/\ Truthy(text_in[1])
             /\ \E s \in {Lower(text_in[1])} :
                   \/ HasWholeWord(s, UsCountryWords \cup UsPlaceWords, TRUE)
                   \/ HasWholeWord(s, UsStates \cup StateAbbr, FALSE))

-----------------------------------------------------------------------------
(* Claims on the batches of main                                           *)

\* the results of the creators with a folder, at the head of all_analyses
MergedResults == SubSeq(master[1], 1, Len(master[1]) - Len(MissingCreators))

\* what every worker has returned, one batch after the other
ReturnedInBatchOrder == Flatten([b \in 1..Len(workers) |-> workers[b].batch_results])

\* C16: the batches are contiguous pieces of the creator list, pairwise disjoint, and
\* hold every creator exactly once; the results and the counters are merged only
\* when every worker has finished its batch, in the order of the batches, so that no
\* result of a batch still running is merged.
C16_BatchesPartitionAndBarrier ==
    /\ batches # <<>>
       => /\ Flatten(batches[1]) = CreatorFolders
          /\ \A b \in 1..Len(batches[1]) : batches[1][b] # <<>>
          /\ \A i, j \in 1..Len(CreatorFolders) :
                CreatorFolders[i] = CreatorFolders[j] => i = j
    /\ master # <<>>
       => /\ \A b \in 1..Len(workers) : workers[b].pos = Len(batches[1][b])
          /\ MergedResults = ReturnedInBatchOrder
          /\ totals[1].total_successful - Len(MissingCreators)
                + totals[1].total_skipped + totals[1].total_errors
             = Len(CreatorFolders)

\* two batches of one creator each, both analysed, have been merged
C16_Witness ==
    /\ master # <<>>
    /\ Len(batches[1]) = 2
    /\ \A b \in 1..2 : Len(workers[b].batch_results) = 1
    /\ Len(MergedResults) = 2
    /\ MergedResults[1].username # MergedResults[2].username

-----------------------------------------------------------------------------
(* Single lookups on databases with overlapping regions                      *)

\* a country with two kinds of subdivisions: the region holds points of England, and
\* the bounds of England and of Scotland overlap; one landmark is named as its city
UnitedKingdom ==
    [code |-> "GBR", name |-> <<"U", "n", "i", "t", "e", "d", " ", "K", "i", "n", "g", "d", "o", "m">>, bounds |-> Bounds(4990, 6090, -820, 180),
     countries |-> <<[code |-> "ENG", name |-> <<"E", "n", "g", "l", "a", "n", "d">>,
                      bounds |-> Bounds(4990, 5580, -570, 180)],
                     [code |-> "SCT", name |-> <<"S", "c", "o", "t", "l", "a", "n", "d">>,
                      bounds |-> Bounds(5460, 6090, -820, -70)]>>,
     regions |-> <<[code |-> "LDN", name |-> <<"G", "r", "e", "a", "t", "e", "r", " ", "L", "o", "n", "d", "o", "n">>,
                    bounds |-> Bounds(5128, 5170, -51, 34),
                    major_cities |-> <<[name |-> <<"L", "o", "n", "d", "o", "n">>, lat |-> 5151, lng |-> -13]>>,
                    landmarks |-> <<[name |-> <<"B", "i", "g", " ", "B", "e", "n">>, lat |-> 5150, lng |-> -12,
                                     city |-> <<"L", "o", "n", "d", "o", "n">>, county |-> <<"W", "e", "s", "t", "m", "i", "n", "s", "t", "e", "r">>],
                                    [name |-> <<"L", "o", "n", "d", "o", "n">>, lat |-> 5151, lng |-> -13,
                                     city |-> <<"L", "o", "n", "d", "o", "n">>]>>]>>]

\* a country with a subdivision that has the name of its city
Emirates ==
    [code |-> "ARE", name |-> <<"U", "n", "i", "t", "e", "d", " ", "A", "r", "a", "b", " ", "E", "m", "i", "r", "a", "t", "e", "s">>,
     bounds |-> Bounds(2200, 2650, 5100, 5640),
     emirates |-> <<[code |-> "DXB", name |-> <<"D", "u", "b", "a", "i">>,
                     bounds |-> Bounds(2470, 2540, 5480, 5570),
                     major_cities |-> <<[name |-> <<"D", "u", "b", "a", "i">>, lat |-> 2520, lng |-> 5527]>>]>>]

SurveyDatabases ==
    {[countries |-> <<UnitedStates, NorthAmerica, UnitedKingdom, Emirates>>],
     [countries |-> <<NorthAmerica, UnitedStates, France, UnitedKingdom>>]}

\* Big Ben, the landmark London, a point of England and Scotland, a point of Scotland
\* alone, Dubai, a point of North America outside the United States, and a point
\* outside every country
SurveyPoints ==
    LookupPoints
    \cup {[lat |-> 5150, lng |-> -12], [lat |-> 5151, lng |-> -13],
          [lat |-> 5500, lng |-> -200], [lat |-> 5700, lng |-> -400],
          [lat |-> 2520, lng |-> 5527], [lat |-> 6000, lng |-> -10000],
          [lat |-> -3000, lng |-> 1000]}

InitLookup ==
    /\ gps_db \in SurveyDatabases
    /\ instagram_data = <<>>
    /\ updated_data = <<>>
    /\ lookups = <<>>
    /\ now \in {20000}
    /\ IdleCollab /\ IdleAnalysis /\ IdleBatch /\ IdleText

\* a call of determine_location for one of the points of the survey
SurveyLocation ==
    /\ Len(lookups) < MaxLookups
    /\ \E p \in SurveyPoints :
          /\ lookups' = Append(lookups,
                [lat |-> p.lat, lng |-> p.lng, gps_db |-> gps_db,
                 result |-> determine_location(p.lat, p.lng, gps_db)])
          /\ gps_db' = GpsDbAfter(p.lat, p.lng, gps_db)
    /\ UNCHANGED <<posts, now, collabVars, analysisVars, batchVars, instagram_data,
                   updated_data, textVars>>

NextLookup == SurveyLocation

SpecLookup == InitLookup /\ [][NextLookup]_vars

-----------------------------------------------------------------------------
(* Claims on determine_location                                            *)

\* the countries of a database whose bounding box holds the point, by position
Holding(l) ==
    {k \in 1..Len(l.gps_db.countries) :
        /\ l.gps_db.countries[k].bounds.south <= l.lat
        /\ l.lat <= l.gps_db.countries[k].bounds.north
        /\ l.gps_db.countries[k].bounds.west <= l.lng
        /\ l.lng <= l.gps_db.countries[k].bounds.east}

FirstHolding(l) == l.gps_db.countries[CHOOSE k \in Holding(l) : \A j \in Holding(l) : k <= j]

\* the buckets of subdivisions in the order of their scan
BucketOrder == <<"states", "provinces", "regions", "emirates", "countries", "governorates">>

\* the subdivisions of a country whose bounding box holds the point: the position of
\* the bucket, then the position in the bucket
HoldingSubdivisions(l, country_data) ==
    {bi \in (1..Len(BucketOrder)) \X (1..3) :
        /\ BucketOrder[bi[1]] \in DOMAIN country_data
        /\ bi[2] <= Len(country_data[BucketOrder[bi[1]]])
        /\ \E b \in {country_data[BucketOrder[bi[1]]][bi[2]].bounds} :
              b.south <= l.lat /\ l.lat <= b.north /\ b.west <= l.lng /\ l.lng <= b.east}

Earlier(a, b) == a[1] < b[1] \/ (a[1] = b[1] /\ a[2] <= b[2])

\* the name of the first subdivision that holds the point, null without one
FirstSubdivisionName(l, country_data) ==
    LET holding == HoldingSubdivisions(l, country_data)
        first == CHOOSE a \in holding : \A b \in holding : Earlier(a, b)
    IN  IF holding = {} THEN NoneText
        ELSE country_data[BucketOrder[first[1]]][first[2]].name

NothingFound ==
    [city |-> NoneText, state |-> NoneText, country |-> NoneText, county |-> NoneText,
     landmark |-> NoneText, postal_code |-> NoneText, full_location |-> NoneText,
     approximate |-> TRUE]

\* C17: the country of a lookup is the first country of the database whose bounding
\* box holds the point, and the subdivision the first whose box holds it when the
\* buckets are scanned in the order states, provinces, regions, emirates, countries,
\* governorates, a bucket to its end before the next; of overlapping boxes the one
\* declared earlier wins.  When no country holds the point every place field is null
\* and approximate is true.
C17_FirstDeclaredWins ==
    \A i \in 1..Len(lookups) : \A l \in {lookups[i]} :
        IF Holding(l) = {} THEN l.result = NothingFound
        ELSE /\ l.result.country = FirstHolding(l).name
             /\ l.result.state = FirstSubdivisionName(l, FirstHolding(l))
             /\ l.result.approximate

\* a point of North America and of the United States is given to North America,
\* declared first, and a point of Greater London and of England to the region,
\* whose bucket is scanned first
C17_Witness ==
    /\ Len(lookups) = 2
    /\ Cardinality(Holding(lookups[1])) = 2
    /\ lookups[1].result.country = <<"N", "o", "r", "t", "h", " ", "A", "m", "e", "r", "i", "c", "a">>
    /\ Cardinality(Holding(lookups[2])) = 1
    /\ Cardinality(HoldingSubdivisions(lookups[2], FirstHolding(lookups[2]))) = 2
    /\ lookups[2].result.state = <<"G", "r", "e", "a", "t", "e", "r", " ", "L", "o", "n", "d", "o", "n">>

\* the parts of full_location as the claim lists them, from the fields of the result
ClaimedParts(r, code) ==
    (IF Truthy(r.landmark) THEN <<r.landmark>> ELSE <<>>)
    \o (IF Truthy(r.city) /\ r.city # r.landmark THEN <<r.city>> ELSE <<>>)
    \o (IF Truthy(r.county) /\ code = "USA" THEN <<r.county \o <<" ", "C", "o", "u", "n", "t", "y">>>> ELSE <<>>)
    \o (IF Truthy(r.state) THEN <<r.state>> ELSE <<>>)
    \o (IF Truthy(r.country) THEN <<r.country>> ELSE <<>>)

\* the comma-separated parts of a text
RECURSIVE SplitAtCommas(_)
SplitAtCommas(s) ==
    IF \E i \in 1..(Len(s) - 1) : s[i] = "," /\ s[i + 1] = " "
    THEN LET i == CHOOSE k \in 1..(Len(s) - 1) :
                     /\ s[k] = "," /\ s[k + 1] = " "
                     /\ \A j \in 1..(k - 1) : ~(s[j] = "," /\ s[j + 1] = " ")
         IN  <<SubSeq(s, 1, i - 1)>> \o SplitAtCommas(SubSeq(s, i + 2, Len(s)))
    ELSE <<s>>

Resolved(l) == Holding(l) # {}

\* full_location is the join of the parts in the order of the claim, and writes no
\* county outside the USA
JoinedInOrder(l) ==
    /\ SplitAtCommas(l.result.full_location) = ClaimedParts(l.result, FirstHolding(l).code)
    /\ FirstHolding(l).code # "USA" => ~Contains(l.result.full_location, <<" ", "C", "o", "u", "n", "t", "y">>)

NoPartTwice(l) ==
    \A a, b \in 1..Len(SplitAtCommas(l.result.full_location)) :
        SplitAtCommas(l.result.full_location)[a] = SplitAtCommas(l.result.full_location)[b]
        => a = b

\* C18 as stated: whenever a country is resolved, full_location is the ", "-join of
\* the non-empty parts in the order landmark, city (when it differs from the
\* landmark), "<county> County" (when the country code is USA), state, country; no
\* county is written for another country, and no part appears twice.
C18_JoinedPartsNoneTwice ==
    \A i \in 1..Len(lookups) :
        Resolved(lookups[i]) => JoinedInOrder(lookups[i]) /\ NoPartTwice(lookups[i])

\* C18, amended: whenever a country is resolved, full_location is the join of those
\* parts in that order, no county is written for a country other than the USA, and
\* the landmark and the city are never both written when they are equal; a part is
\* written twice only as a city named as its state or a state named as its country.
C18_JoinedParts ==
    \A i \in 1..Len(lookups) : \A l \in {lookups[i]} :
        Resolved(l)
        => /\ JoinedInOrder(l)
           /\ \A parts \in {SplitAtCommas(l.result.full_location)} :
                 \A a, b \in 1..Len(parts) :
                    a < b /\ parts[a] = parts[b]
                    => \/ parts[a] = l.result.city /\ parts[b] = l.result.state
                       \/ parts[a] = l.result.state /\ parts[b] = l.result.country
                       \/ parts[a] = l.result.city /\ parts[b] = l.result.country

\* Big Ben, whose county is found but not written because the country is not the USA,
\* then the State Capitol with its county
C18_Witness ==
    /\ Len(lookups) = 2
    /\ lookups[1].result.county = <<"W", "e", "s", "t", "m", "i", "n", "s", "t", "e", "r">>
    /\ lookups[1].result.full_location = <<"B", "i", "g", " ", "B", "e", "n", ",", " ", "L", "o", "n", "d", "o", "n", ",", " ", "G", "r", "e", "a", "t", "e", "r", " ", "L", "o", "n", "d", "o", "n", ",", " ", "U", "n", "i", "t", "e", "d", " ", "K", "i", "n", "g", "d", "o", "m">>
    /\ lookups[2].result.full_location
          = <<"T", "e", "x", "a", "s", " ", "S", "t", "a", "t", "e", " ", "C", "a", "p", "i", "t", "o", "l", ",", " ", "A", "u", "s", "t", "i", "n", ",", " ", "T", "r", "a", "v", "i", "s", " ", "C", "o", "u", "n", "t", "y", ",", " ", "T", "e", "x", "a", "s", ",", " ", "U", "n", "i", "t", "e", "d", " ", "S", "t", "a", "t", "e", "s">>

-----------------------------------------------------------------------------
(* Claims on the brands of identify_collaborations                           *)

\* the @tokens and the #tokens of the captions, post by post
MentionsOf(i) ==
    IF Truthy(CaptionOf(posts[i])) THEN FindMentions(CaptionOf(posts[i])) ELSE <<>>
HashtagsOf(i) ==
    IF Truthy(CaptionOf(posts[i])) THEN FindAllFrom(CaptionOf(posts[i]), 1, "#", FALSE)
    ELSE <<>>

\* how often a token occurs as a mention and as a hashtag
TimesMentioned(t) ==
    Cardinality({ik \in (1..Len(posts)) \X (1..10) :
                    ik[2] <= Len(MentionsOf(ik[1])) /\ MentionsOf(ik[1])[ik[2]] = t})
TimesTagged(t) ==
    Cardinality({ik \in (1..Len(posts)) \X (1..10) :
                    ik[2] <= Len(HashtagsOf(ik[1])) /\ HashtagsOf(ik[1])[ik[2]] = t})

\* the tokens that the filters of the mention loop let through
Tokens ==
    {t \in UNION {Range(MentionsOf(i)) \cup Range(HashtagsOf(i)) : i \in 1..Len(posts)} :
        Len(t) >= 3 /\ Lower(t) \notin MentionStopWords}

TimesListed(t) ==
    Cardinality({k \in 1..Len(collab[1].top_collaborations) :
                    collab[1].top_collaborations[k].name = t})

\* C19: a token that the filters let through is in top_collaborations exactly once
\* if it occurs at least twice as a mention or at least twice as a hashtag, and not
\* at all otherwise; no brand is listed twice and every entry has a count of two or
\* more.
C19_ListedOnceIffTwice ==
    collab # <<>>
    => /\ \A t \in Tokens :
             TimesListed(t) = IF TimesMentioned(t) >= 2 \/ TimesTagged(t) >= 2
                              THEN 1 ELSE 0
       /\ \A a, b \in 1..Len(collab[1].top_collaborations) :
             collab[1].top_collaborations[a].name = collab[1].top_collaborations[b].name
             => a = b
       /\ \A a \in 1..Len(collab[1].top_collaborations) :
             collab[1].top_collaborations[a].count >= 2

\* C20: the source of a listed brand is "mention & hashtag" exactly when the token
\* occurs both as @token and as #token, "mention" when it occurs only as a mention
\* and "hashtag" when it occurs only as a hashtag, whatever the order of the posts.
C20_SourceFromBothForms ==
    collab # <<>>
    => \A a \in 1..Len(collab[1].top_collaborations) :
          \A e \in {collab[1].top_collaborations[a]} :
             e.source = IF TimesMentioned(e.name) > 0 /\ TimesTagged(e.name) > 0
                        THEN "mention & hashtag"
                        ELSE IF TimesMentioned(e.name) > 0 THEN "mention"
                        ELSE "hashtag"

-----------------------------------------------------------------------------
(* Claims on the entries of top_collaborations                               *)

TopCollaborations == collab[1].top_collaborations

\* the caption of post i holds the token as @token or as #token
TokenIn(i, t) == t \in Range(MentionsOf(i)) \cup Range(HashtagsOf(i))

\* post i has taken_at, later than now minus 300 days
TakenRecently(i) == posts[i].taken_at # 0 /\ posts[i].taken_at > now - RecentThreshold

\* C21: a listed brand is recent exactly when some post whose caption holds the token,
\* as @token or as #token, was taken later than now minus 300 days; a post without
\* taken_at makes no brand recent.
C21_RecentIffAnyOccurrence ==
    collab # <<>>
    => \A a \in 1..Len(TopCollaborations) :
          TopCollaborations[a].is_recent
          = (\E i \in 1..Len(posts) :
                TokenIn(i, TopCollaborations[a].name) /\ TakenRecently(i))

\* post i counts toward the engagement average of the token: its caption holds @token
\* or #token, in any case, with a word boundary after it
CountsToward(i, t) ==
    \/ SearchTag(CaptionOf(posts[i]), "@", t, TRUE)
    \/ SearchTag(CaptionOf(posts[i]), "#", t, TRUE)

\* C22: the types of a listed brand are ["ad"] exactly when one of the posts that count
\* toward its engagement average also holds an ad or sponsorship indicator, and
\* ["organic"] otherwise, with one element always and the same rule in both passes.
C22_AdIffCountedPostHasIndicator ==
    collab # <<>>
    => \A a \in 1..Len(TopCollaborations) :
          TopCollaborations[a].types
          = IF \E i \in 1..Len(posts) :
                  /\ CountsToward(i, TopCollaborations[a].name)
                  /\ HasAdIndicator(CaptionOf(posts[i]))
            THEN <<"ad">> ELSE <<"organic">>

\* C23: top_collaborations is ordered by recency and then by engagement, both
\* descending: a recent brand stands before every brand that is not recent and, among
\* brands of the same recency, the engagement does not increase; total_collaborations
\* is the length of the list and recent_count the number of its recent entries.
C23_OrderedAndCounted ==
    collab # <<>>
    => /\ \A a, b \in 1..Len(TopCollaborations) :
             a < b
             => /\ TopCollaborations[a].is_recent \/ ~TopCollaborations[b].is_recent
                /\ TopCollaborations[a].is_recent = TopCollaborations[b].is_recent
                   => TopCollaborations[a].engagement >= TopCollaborations[b].engagement
       /\ collab[1].metrics.total_collaborations = Len(TopCollaborations)
       /\ collab[1].metrics.recent_count
          = Cardinality({a \in 1..Len(TopCollaborations) : TopCollaborations[a].is_recent})

\* the brand of the hashtag pass, recent, stands before that of the mention pass
C23_Witness ==
    /\ collab # <<>>
    /\ Len(TopCollaborations) = 2
    /\ TopCollaborations[1].name = <<"p", "u", "m", "a">> /\ TopCollaborations[1].is_recent
    /\ TopCollaborations[2].name = <<"n", "i", "k", "e">> /\ ~TopCollaborations[2].is_recent
    /\ collab[1].metrics.recent_count = 1

-----------------------------------------------------------------------------
(* More claims on extract_age                                              *)

\* C24 as stated: no direct age mention makes extract_age return the group "25-34".
C24_NoDirectAgeIn2534 ==
    FromDirectMention => age_out[1].age_group # "25-34"

\* C24, amended: a direct age mention gives the group "25-34" exactly for the ages 30
\* to 34; the ages 25 to 29, which the branch for ages under 30 takes first, never
\* give it.
C24_DirectAge2534From30To34 ==
    FromDirectMention
    => (age_out[1].age_group = "25-34")
       = (30 <= age_out[1].age[1] /\ age_out[1].age[1] <= 34)

\* "30 years old" has given 30 in the group 25-34
C24_Witness ==
    /\ FromDirectMention
    /\ text_in[1] = <<"3", "0", " ", "y", "e", "a", "r", "s", " ", "o", "l", "d">>
    /\ age_out[1] = [age |-> <<30>>, age_group |-> "25-34"]

\* a life-stage keyword stands in the text
HasLifeStageKeyword(s) ==
    \E w \in { <<"c", "o", "l", "l", "e", "g", "e">>, <<"u", "n", "i", "v", "e", "r", "s", "i", "t", "y">>, <<"c", "a", "r", "e", "e", "r">>, <<"j", "o", "b">> } : Contains(Lower(s), w)

\* C25: extract_age returns an age group for every text: when neither a direct age
\* mention, nor a birth year, nor a life-stage keyword gives one it is the default
\* "25-29", and the result is never (null, null).
C25_AgeGroupNeverNull ==
    age_out # <<>>
    => /\ age_out[1].age_group # None
       /\ ~(age_out[1].age = <<>> /\ age_out[1].age_group = None)
       /\ (age_out[1].age = <<>> /\ ~HasLifeStageKeyword(text_in[1]))
          => age_out[1].age_group = "25-29"

\* C25, amended: extract_age returns an age group for every text that is not empty or
\* null, the default "25-29" when no age, birth year or life-stage keyword is found;
\* for an empty or null text, and only then, it returns (null, null).
C25_AgeGroupUnlessEmpty ==
    age_out # <<>>
    => /\ (age_out[1].age_group = None) = ~Truthy(text_in[1])
       /\ ~Truthy(text_in[1]) => age_out[1].age = <<>>
       /\ (Truthy(text_in[1]) /\ age_out[1].age = <<>> /\ ~HasLifeStageKeyword(text_in[1]))
          => age_out[1].age_group = "25-29"

\* "hello" has given the default group without an age
C25_Witness ==
    /\ age_out # <<>>
    /\ text_in[1] = <<"h", "e", "l", "l", "o">>
    /\ age_out[1] = [age |-> <<>>, age_group |-> "25-29"]

-----------------------------------------------------------------------------
(* detect_gender_from_text on its own arguments                            *)

\* name lists with a name in both of them
TablesWithAlex ==
    [TablesWith({ <<"j", "o", "h", "n">>, <<"a", "l", "e", "x">> }) EXCEPT !.female_names = { <<"a", "n", "n", "a">>, <<"a", "l", "e", "x">> }]

GenderBios ==
    { <<>>, NoneText, <<"s", "h", "e", " ", "h", "e", "r">>, <<"h", "e">>, <<"m", "o", "m", " ", "o", "f", " ", "a", " ", "b", "o", "y">>, <<"S", "h", "e", ",", " ", "h", "e", "r", " ", "a", "n", "d", " ", "h", "i", "m">>,
      <<FemaleSign, " ", "h", "i">> }
GenderCaptions == { <<>>, << <<"h", "e", " ", "s", "a", "i", "d">> >>, << <<>>, <<"g", "i", "r", "l", " ", "p", "o", "w", "e", "r">> >> }
GenderNames == { <<"j", "o", "h", "n">>, <<"A", "n", "n", "a">>, <<"a", "l", "e", "x">>, <<"C", "h", "r", "i", "s">>, <<>>, NoneText }
GenderNiches == { <<"B", "e", "a", "u", "t", "y">>, <<"G", "a", "m", "i", "n", "g">>, <<"T", "r", "a", "v", "e", "l">>, <<"F", "a", "s", "h", "i", "o", "n", " ", "T", "e", "c", "h">>, NoneText }

InitGender ==
    /\ gender_in \in
          {<<[bio |-> b, captions |-> c, first_name |-> f, niche |-> n, tbl |-> t]>> :
              b \in GenderBios, c \in GenderCaptions, f \in GenderNames,
              n \in GenderNiches, t \in {TablesWith({ <<"j", "o", "h", "n">> }), TablesWithAlex}}
    /\ gender_out = <<>>
    /\ now \in {20000}
    /\ text_in = <<>> /\ niche_out = <<>> /\ age_out = <<>> /\ based_out = <<>>
    /\ locations_out = <<>>
    /\ IdleCollab /\ IdleAnalysis /\ IdleBatch /\ IdleGeo

\* gender, confidence = detect_gender_from_text(bio, captions, first_name, niche)
DetectGender ==
    /\ gender_out = <<>>
    /\ gender_out' = <<detect_gender_from_text(gender_in[1].bio, gender_in[1].captions,
                           gender_in[1].first_name, gender_in[1].niche, gender_in[1].tbl)>>
    /\ UNCHANGED <<posts, now, collabVars, analysisVars, batchVars, geoVars, text_in,
                   niche_out, age_out, based_out, gender_in, locations_out>>

NextGender == DetectGender

SpecGender == InitGender /\ [][NextGender]_vars

\* the three scores of a call, from its arguments: the name in the lists, the
\* indicator words of the bio and the captions, the niche in the gendered lists
NameScore(g) ==
    IF Truthy(g.first_name) /\ Lower(g.first_name) \in g.tbl.male_names THEN -1
    ELSE IF Truthy(g.first_name) /\ Lower(g.first_name) \in g.tbl.female_names THEN 1
    ELSE 0
FemaleMatches(g) == CountAll(<<g.bio>> \o g.captions, FemaleWords, FemaleSign)
MaleMatches(g) == CountAll(<<g.bio>> \o g.captions, MaleWords, MaleSign)
NicheFemale(g) ==
    Truthy(g.niche) /\ \E k \in g.tbl.female_dominated : Contains(Lower(g.niche), k)
NicheMale(g) ==
    Truthy(g.niche) /\ \E k \in g.tbl.male_dominated : Contains(Lower(g.niche), k)
\* the niche score in tenths: 0.8, -0.8 or 0
NicheTenths(g) == IF NicheFemale(g) THEN 8 ELSE IF NicheMale(g) THEN -8 ELSE 0

\* 0.5 * name + 0.35 * content + 0.15 * niche as the fraction num / den, den > 0
WeightedScore(g, f, m) ==
    IF f + m = 0
    THEN [num |-> 500 * NameScore(g) + 15 * NicheTenths(g), den |-> 1000]
    ELSE [num |-> (500 * NameScore(g) + 15 * NicheTenths(g)) * (f + m) + 350 * (f - m),
          den |-> 1000 * (f + m)]

\* the ordered fallback chain of the claim
ClaimedFallback(g) ==
    IF NicheFemale(g) THEN [gender |-> "Female", tenths |-> 6]
    ELSE IF NicheMale(g) THEN [gender |-> "Male", tenths |-> 6]
    ELSE IF NameScore(g) = -1 THEN [gender |-> "Male", tenths |-> 7]
    ELSE IF Truthy(g.first_name) /\ Lower(g.first_name) \in g.tbl.female_names
         THEN [gender |-> "Female", tenths |-> 7]
    ELSE [gender |-> "Female", tenths |-> 5]

\* the confidence out.num / out.den is the fraction num / den
ConfidenceEquals(out, num, den) == out.num * den = num * out.den

-----------------------------------------------------------------------------
(* analyze_locations on a post list                                        *)

\* the longest list of located posts
MaxLocationPosts == 3

\* a post at a place; no coordinates when lat is 0
PostAt(name, lat, lng) ==
    [BasePost EXCEPT !.location = <<[name |-> name, pk |-> 1, lat |-> lat, lng |-> lng]>>]

\* posts without a location, with a location without a name, and at three places
LocatedPosts ==
    { BasePost, PostAt(<<>>, 3027, -9774), PostAt(<<"A", "u", "s", "t", "i", "n", ",", " ", "T", "X">>, 3027, -9774),
      PostAt(<<"P", "a", "r", "i", "s", ",", " ", "F", "r", "a", "n", "c", "e">>, 4886, 235), PostAt(<<"D", "u", "b", "a", "i">>, 0, 0) }

\* a list with six names, of which the third has two posts
SixPlaces ==
    << PostAt(<<"R", "o", "m", "e">>, 0, 0), PostAt(<<"O", "s", "l", "o">>, 0, 0), PostAt(<<"L", "i", "m", "a">>, 0, 0),
       PostAt(<<"B", "e", "r", "n">>, 0, 0), PostAt(<<"L", "i", "m", "a">>, 0, 0), PostAt(<<"K", "y", "i", "v">>, 0, 0),
       PostAt(<<"D", "o", "h", "a">>, 0, 0) >>

InitLocations ==
    /\ posts \in SeqsUpTo(LocatedPosts, MaxLocationPosts) \cup {SixPlaces}
    /\ now \in Clocks
    /\ collab = <<>>
    /\ locations_out = <<>>
    /\ text_in = <<>> /\ niche_out = <<>> /\ age_out = <<>> /\ based_out = <<>>
    /\ gender_in = <<>> /\ gender_out = <<>>
    /\ IdleAnalysis /\ IdleBatch /\ IdleGeo

\* location_analysis = analyze_locations(posts)
AnalyzeLocations ==
    /\ locations_out = <<>>
    /\ locations_out' = <<analyze_locations(posts, now)>>
    /\ UNCHANGED <<posts, now, collabVars, analysisVars, batchVars, geoVars, text_in,
                   niche_out, age_out, based_out, gender_in, gender_out>>

NextLocations == AnalyzeLocations

SpecLocations == InitLocations /\ [][NextLocations]_vars

\* post i has a named location
Named(i) == posts[i].location # <<>> /\ Truthy(posts[i].location[1].name)
PlaceNames == {posts[i].location[1].name : i \in {j \in 1..Len(posts) : Named(j)}}
PostsAt(n) == {i \in 1..Len(posts) : Named(i) /\ posts[i].location[1].name = n}
FirstPostAt(n) == CHOOSE i \in PostsAt(n) : \A j \in PostsAt(n) : i <= j

\* the name of the greatest number of posts, the first in post order among equals
MostPosted ==
    CHOOSE n \in PlaceNames : \A o \in PlaceNames :
        \/ Cardinality(PostsAt(n)) > Cardinality(PostsAt(o))
        \/ /\ Cardinality(PostsAt(n)) = Cardinality(PostsAt(o))
           /\ FirstPostAt(n) <= FirstPostAt(o)

Min(a, b) == IF a < b THEN a ELSE b

\* C27: home_location is null exactly when no post has a named location; otherwise it
\* is the name of the greatest number of posts, the first in post order among equals,
\* with that number as its count, which is also the count of location_data[name];
\* top_locations is sorted by count, descending, and has at most 5 entries.
C27_HomeIsMostPosted ==
    locations_out # <<>>
    => \A out \in {locations_out[1]} :
          /\ (out.home_location = <<>>) = (PlaceNames = {})
          /\ out.home_location # <<>>
             => /\ out.home_location[1].full_location = MostPosted
                /\ out.home_location[1].count = Cardinality(PostsAt(MostPosted))
                /\ Get(out.location_data, MostPosted).count = out.home_location[1].count
          /\ Len(out.top_locations) = Min(5, Cardinality(PlaceNames))
          /\ \A a, b \in 1..Len(out.top_locations) :
                a < b => out.top_locations[a].count >= out.top_locations[b].count
          /\ \A a \in 1..Len(out.top_locations) :
                out.top_locations[a].count = Cardinality(PostsAt(out.top_locations[a].name))

\* six names, of which the third in post order has two posts and is the home
C27_Witness ==
    /\ locations_out # <<>>
    /\ posts = SixPlaces
    /\ locations_out[1].home_location[1].full_location = <<"L", "i", "m", "a">>
    /\ locations_out[1].home_location[1].count = 2
    /\ Len(locations_out[1].top_locations) = 5

-----------------------------------------------------------------------------
(* The address of personal_details                                          *)

AddressFields == {"city", "state", "country"}

\* the profile's value of an address field
ProfileField(f) ==
    CASE f = "city" -> user[1].city_name
      [] f = "state" -> user[1].state
      [] f = "country" -> user[1].country

\* the posts of the creator at the place the analysis calls home
PostsAtHome(r) ==
    IF r.user_info.location_analysis.home_location = <<>> THEN {}
    ELSE PostsAt(r.user_info.location_analysis.home_location[1].full_location)

\* the analysis read an address field off the home location
Inferred(r, f) ==
    r.user_info.personal_details.address[f] # ProfileField(f)

\* C28: an address field of personal_details differs from the profile's only when
\* the home location has at least 3 posts and the profile's field is empty, and then
\* it is the home location's; a non-empty profile field stays, and below 3 posts all
\* three fields are the profile's
C28_InferredOnlyFromThreePosts ==
    \A i \in 1..Len(runs) : \A f \in AddressFields :
        LET r == runs[i]
            a == r.user_info.personal_details.address
            home == r.user_info.location_analysis.home_location
        IN  /\ Inferred(r, f) =>
                /\ Cardinality(PostsAtHome(r)) >= 3
                /\ ProfileField(f) = <<>>
                /\ a[f] = home[1][f]
            /\ ProfileField(f) # <<>> => a[f] = ProfileField(f)
            /\ Cardinality(PostsAtHome(r)) < 3 => a[f] = ProfileField(f)
            /\ (Cardinality(PostsAtHome(r)) >= 3 /\ ProfileField(f) = <<>>
                    /\ Truthy(home[1][f])) => a[f] = home[1][f]

\* a creator with three posts from Austin and a profile country: the city is read
\* off the posts, the country stays the profile's
C28_Witness ==
    /\ runs # <<>>
    /\ user[1].country = <<"F", "r", "a", "n", "c", "e">>
    /\ Cardinality(PostsAtHome(runs[1])) = 3
    /\ Inferred(runs[1], "city")
    /\ runs[1].user_info.personal_details.address.city = <<"A", "u", "s", "t", "i", "n">>
    /\ runs[1].user_info.personal_details.address.country = <<"F", "r", "a", "n", "c", "e">>
    /\ Truthy(runs[1].user_info.location_analysis.home_location[1].country)

-----------------------------------------------------------------------------
(* creator_based_on of the records of process_creator_batch                 *)

\* the records the workers have appended to batch_results
BatchRecords ==
    UNION {{workers[b].batch_results[i] : i \in 1..Len(workers[b].batch_results)} :
              b \in 1..Len(workers)}

\* every listed US indicator: the country synonyms, the state names, the state
\* abbreviations and the cities
AllUsIndicators ==
    UsCountryWords \cup UsPlaceWords \cup UsStates \cup StateAbbr \cup UsCities

\* the bio, the address fields and the names of the top locations of a record
LocationTexts(r) ==
    {r.personal_details.bio_data, r.personal_details.address.street_address,
     r.personal_details.address.city, r.personal_details.address.state,
     r.personal_details.address.country}
    \cup {r.location_analysis.top_locations[i].name :
             i \in 1..Len(r.location_analysis.top_locations)}

\* a listed indicator stands as a whole word in one of the texts
WholeWordIndicator(r) ==
    \E t \in {x \in LocationTexts(r) : Truthy(x)} :
        \E s \in {Lower(t)} : HasWholeWord(s, AllUsIndicators, TRUE)

\* the home location lies in one of the three boxes
HomeInUsBoxes(r) ==
    /\ r.location_analysis.home_location # <<>>
    /\ determine_location_based_on_geo(
           r.location_analysis.home_location[1].coordinates) = "USA"

\* C29: creator_based_on of a record of process_creator_batch is "USA" only if a
\* listed US indicator stands as a whole word in the bio, the address or a top
\* location, or the city is exactly "United States", or the home location lies in
\* one of the three US boxes; otherwise it is "Global"
C29_UsaOnlyOnWholeWord ==
    \A r \in BatchRecords :
        /\ r.personal_details.creator_based_on \in {"USA", "Global"}
        /\ r.personal_details.creator_based_on = "USA"
           => \/ WholeWordIndicator(r)
              \/ r.personal_details.address.city = <<"U", "n", "i", "t", "e", "d", " ", "S", "t", "a", "t", "e", "s">>
              \/ HomeInUsBoxes(r)

-----------------------------------------------------------------------------
(* The fields of home_location across the geo-resolution pass               *)

PlaceFields == {"city", "state", "country", "full_location"}

\* the records of the input file whose home_location has coordinates
WithCoordinates ==
    {i \in 1..Len(instagram_data) :
        /\ "location_analysis" \in DOMAIN instagram_data[i]
        /\ "home_location" \in DOMAIN instagram_data[i].location_analysis
        /\ instagram_data[i].location_analysis.home_location # <<>>
        /\ "coordinates" \in
              DOMAIN instagram_data[i].location_analysis.home_location[1]
        /\ instagram_data[i].location_analysis.home_location[1].coordinates # <<>>}

HomeBefore(i) == instagram_data[i].location_analysis.home_location[1]
HomeAfter(i) == updated_data[1].updated_data[i].location_analysis.home_location[1]

\* what determine_location resolves at the coordinates of record i
ResolvedAt(i) ==
    determine_location(HomeBefore(i).coordinates[1].lat,
                       HomeBefore(i).coordinates[1].lng, gps_db)

\* C30: for every record with coordinates the pass changes city, state, country or
\* full_location only to a non-null value determine_location resolved for that
\* field, so that a non-null field never becomes null, and the four fields are
\* either all those of the input or all those resolved
C30_OnlyResolvedValuesWritten ==
    updated_data # <<>>
    => \A i \in WithCoordinates :
          /\ \A f \in PlaceFields :
                /\ HomeAfter(i)[f] # HomeBefore(i)[f]
                   => Truthy(ResolvedAt(i)[f]) /\ HomeAfter(i)[f] = ResolvedAt(i)[f]
                /\ Truthy(HomeBefore(i)[f]) => Truthy(HomeAfter(i)[f])
          /\ \/ \A f \in PlaceFields : HomeAfter(i)[f] = HomeBefore(i)[f]
             \/ \A f \in PlaceFields : HomeAfter(i)[f] = ResolvedAt(i)[f]

=============================================================================
